---- MODULE Spec2Model ----
(***************************************************************************)
(* RoutePlotter: the multi-format route parsing pipeline of                *)
(* src/src/route_utils.ts (dispatcher extractRoutes, the four extractors,  *)
(* the geometry utilities and the post-extraction projectors).             *)
(*                                                                         *)
(* Numbers are fixed-point integers in thousandths (1.5 is 1500), so that  *)
(* toFixed(2) is a real rounding.  IEEE NaN is the distinguished value NaN.*)
(* A text is the sequence of its lines (text.split("\n")); the empty text  *)
(* is the empty sequence.  A line is one of                                *)
(*   [kind |-> "json",    value]    a complete JSON document               *)
(*   [kind |-> "hdr",     rest]     the positioning-log header prefix      *)
(*                                  followed by the characters `rest`      *)
(*   [kind |-> "cells",   cells]    comma-separated cells                  *)
(*   [kind |-> "comment", mentions] "#" followed by free text              *)
(*   [kind |-> "text",    mentions] free text                              *)
(* where free text is described by the coordinate mentions it contains.    *)
(***************************************************************************)
EXTENDS Integers, Sequences, FiniteSets, TLC

VARIABLES
  text,        \* extractRoutes: the argument `text`
  pc,          \* extractRoutes: position in the try/catch cascade
  attempted,   \* extractRoutes: the extractors called so far, in call order
  successes,   \* messages passed to onSuccess so far
  failures,    \* messages passed to onFailure so far
  returned,    \* the Route[] returned to the caller
  lines,       \* parseTTP: the argument, split into lines
  ttp,         \* parseTTP: its result
  route,       \* extractPoints / extractWaypoints: the argument
  flat,        \* result of extractPoints
  waypoints,   \* result of extractWaypoints
  points,      \* calculateTravelTimeInSeconds: the argument
  elapsed,     \* result of calculateTravelTimeInSeconds
  distance,    \* result of calculateDistanceInMeters on points
  mpc,         \* Maybe-based extractRoutes: position in the try/catch cascade
  tried,       \* Maybe-based extractRoutes: the extractors called so far
  outcome,     \* Maybe-based extractRoutes: the Maybe returned to the caller
  maybe,       \* a Maybe object
  ran,         \* the callbacks that ifSuccess and ifFailure have run on it
  app,         \* the state of the App component
  timers       \* the callbacks passed to setTimeout that have not run yet

vars == <<text, pc, attempted, successes, failures, returned,
          lines, ttp, route, flat, waypoints, points, elapsed,
          distance, mpc, tried, outcome, maybe, ran, app, timers>>

dispatcherVars == <<text, pc, attempted, successes, failures, returned>>
ttpVars == <<lines, ttp>>
projectorVars == <<route, flat, waypoints>>
timeVars == <<points, elapsed>>
distanceVars == <<distance>>
outcomeVars == <<mpc, tried, outcome>>
maybeVars == <<maybe, ran>>
appVars == <<app, timers>>
otherVars == <<distanceVars, outcomeVars, maybeVars, appVars>>

-----------------------------------------------------------------------------
(* Bounds of the model *)

\* body lines of a positioning log handed to the dispatcher
MaxBody == 2
\* body lines of a positioning log handed to parseTTP directly
MaxLines == 3
\* data rows of a delimited-telemetry text
MaxRows == 2
\* coordinate mentions of a free text
MaxMentions == 2
\* legs of a route handed to the projectors
MaxLegs == 3
\* points handed to calculateTravelTimeInSeconds
MaxPoints == 4
\* callbacks of setTimeout that wait to run
MaxTimers == 2

-----------------------------------------------------------------------------
(* JavaScript values *)

\* IEEE NaN (the result of parseFloat on an unparseable string)
NaN == -999999999

\* null, where a number is expected (the speed of a pasted point)
Null == -999999998

\* the value of a missing array element or object field
Undef == "<undefined>"

\* a fragment of a line that holds no number and no type code
Opaque == "~"

\* None: a result that has not been computed
None == [none |-> TRUE]

\* parseFloat on the tokens of the model, in thousandths
parseFloat(s) ==
  CASE s = "0"     -> 0
    [] s = "0.0"   -> 0
    [] s = "1"     -> 1000
    [] s = "2"     -> 2000
    [] s = "3"     -> 3000
    [] s = "4"     -> 4000
    [] s = "5"     -> 5000
    [] s = "52"    -> 52000
    [] s = "53"    -> 53000
    [] s = "1.001" -> 1001
    [] s = "1.004" -> 1004
    [] s = "1.009" -> 1009
    [] s = "3.456" -> 3456
    [] s = "7s"    -> 7000
    [] s = "237"   -> 237000
    [] s = "245"   -> 245000
    [] s = "0.7"   -> 700
    [] s = "0.8"   -> 800
    [] s = "-0.7"  -> -700
    [] s = "00"    -> 0
    [] s = "00.000" -> 0
    [] s = "04"    -> 4000
    [] s = "01-02" -> 1000
    [] s = "123"   -> 123000
    [] s = "456"   -> 456000
    [] OTHER       -> NaN

isNaN(x) == x = NaN

\* !x for a number or a missing number: 0, NaN and null are falsy
FalsyNumber(x) == x = 0 \/ x = NaN \/ x = Null

\* !s for a string or a missing value: "" and undefined are falsy
FalsyString(s) == s = "" \/ s = Undef

\* Number.prototype.toFixed(2): round to hundredths, half away from zero
toFixed2(x) ==
  IF x = NaN THEN NaN
  ELSE LET a == IF x < 0 THEN -x ELSE x
           r == ((a + 5) \div 10) * 10
       IN IF x < 0 THEN -r ELSE r

RECURSIVE Concat(_)
\* the concatenation of a sequence of sequences
Concat(ss) == IF ss = <<>> THEN <<>> ELSE Head(ss) \o Concat(Tail(ss))

\* sequences over S of length lo..hi
SeqsOf(S, lo, hi) == UNION {[1..n -> S] : n \in lo..hi}

IsPrefix(s, t) == Len(s) <= Len(t) /\ SubSeq(t, 1, Len(s)) = s

-----------------------------------------------------------------------------
(* Geometry utilities *)

\* the haversine great-circle distance (R = 6371e3) between two of the
\* coordinates of the model, in millimetres, as the source's formula gives it
Haversine(lat1, lon1, lat2, lon2) ==
  LET a == <<lat1, lon1>>
      b == <<lat2, lon2>>
      pair == {a, b}
  IN CASE a = b -> 0
       [] pair = {<<52000, 4000>>, <<52000, 5000>>} -> 68457893
       [] pair = {<<53000, 4000>>, <<53000, 5000>>} -> 66918236
       [] pair = {<<52000, 4000>>, <<53000, 4000>>} -> 111194927
       [] pair = {<<52000, 5000>>, <<53000, 5000>>} -> 111194927
       [] pair = {<<52000, 4000>>, <<53000, 5000>>} -> 130175365
       [] pair = {<<52000, 5000>>, <<53000, 4000>>} -> 130175365

\* calculateDistanceBetweenPointsInMeters counting one metre for a segment
\* that it cannot measure
calculateDistanceBetweenPointsOrOneMetre(previous, current) ==
  IF \/ FalsyNumber(previous.latitude) \/ FalsyNumber(previous.longitude)
     \/ FalsyNumber(current.latitude)  \/ FalsyNumber(current.longitude)
  THEN 1000
  ELSE Haversine(previous.latitude, previous.longitude,
                 current.latitude, current.longitude)

calculateDistanceBetweenPointsInMeters(previous, current) ==
  IF \/ FalsyNumber(previous.latitude) \/ FalsyNumber(previous.longitude)
     \/ FalsyNumber(current.latitude)  \/ FalsyNumber(current.longitude)
  THEN 0
  ELSE Haversine(previous.latitude, previous.longitude,
                 current.latitude, current.longitude)

RECURSIVE SumDistances(_, _)
\* the loop of calculateDistanceInMeters from index i on
SumDistances(ps, i) ==
  IF i > Len(ps) THEN 0
  ELSE calculateDistanceBetweenPointsInMeters(ps[i - 1], ps[i])
       + SumDistances(ps, i + 1)

\* calculateDistanceInMeters with a loop that starts one index too late
calculateDistanceFromSecondPair(ps) ==
  toFixed2(IF Len(ps) >= 2 THEN SumDistances(ps, 3) ELSE 0)

calculateDistanceInMeters(ps) ==
  toFixed2(IF Len(ps) >= 2 THEN SumDistances(ps, 2) ELSE 0)

\* the result of a call that may throw
Returns(v) == [threw |-> FALSE, value |-> v]
Throws == [threw |-> TRUE]

\* calculateTravelTimeInSeconds without the fallback to the neighbouring point
calculateTravelTimeNoFallback(ps) ==
  IF Len(ps) < 2 THEN Returns(0)
  ELSE IF isNaN(parseFloat(ps[1].timestamp)) \/ isNaN(parseFloat(ps[Len(ps)].timestamp))
  THEN Throws
  ELSE Returns(toFixed2(parseFloat(ps[Len(ps)].timestamp) - parseFloat(ps[1].timestamp)))

\* calculateTravelTimeInSeconds reading the end from the second-to-last point
\* first and from the last point as the fallback
calculateTravelTimeEndBeforeLast(ps) ==
  IF Len(ps) < 2 THEN Returns(0)
  ELSE
    LET n == Len(ps)
        first == parseFloat(ps[1].timestamp)
        startTimestamp == IF isNaN(first) THEN parseFloat(ps[2].timestamp) ELSE first
        last == parseFloat(ps[n - 1].timestamp)
        endTimestamp == IF isNaN(last) THEN parseFloat(ps[n].timestamp) ELSE last
    IN IF isNaN(startTimestamp) THEN Throws
       ELSE IF isNaN(endTimestamp) THEN Throws
       ELSE Returns(toFixed2(endTimestamp - startTimestamp))

calculateTravelTimeInSeconds(ps) ==
  IF Len(ps) < 2 THEN Returns(0)
  ELSE
    LET n == Len(ps)
        first == parseFloat(ps[1].timestamp)
        startTimestamp == IF isNaN(first) THEN parseFloat(ps[2].timestamp) ELSE first
        last == parseFloat(ps[n].timestamp)
        endTimestamp == IF isNaN(last) THEN parseFloat(ps[n - 1].timestamp) ELSE last
    IN IF isNaN(startTimestamp) THEN Throws
       ELSE IF isNaN(endTimestamp) THEN Throws
       ELSE Returns(toFixed2(endTimestamp - startTimestamp))

-----------------------------------------------------------------------------
(* Lines *)

\* line.startsWith("#")
StartsWithHash(line) == line.kind = "comment"

\* line.startsWith("BEGIN:ApplicationVersion=TomTom Positioning")
StartsWithHeader(line) == line.kind = "hdr"

\* line.split(","): a line of cells splits into its cells, any other line
\* into fragments that are neither numbers nor type codes
Split(line) == IF line.kind = "cells" THEN line.cells ELSE <<Opaque>>

\* parts[i], i counted from 0
Part(parts, i) == IF i + 1 <= Len(parts) THEN parts[i + 1] ELSE Undef

\* the coordinate mentions of a text, in text order
Mentions(t) ==
  Concat([i \in 1..Len(t) |->
            IF t[i].kind \in {"comment", "text"} THEN t[i].mentions ELSE <<>>])

-----------------------------------------------------------------------------
(* Positioning-log extractor *)

TYPE_OUTGOING_LOCATION == "237"
TYPE_INCOMING_LOCATION == "245"

RECURSIVE ScanTTP(_, _, _, _, _)
\* the forEach of parseTTPPoints from line i on, with the points and the
\* seen timestamps collected so far
ScanTTP(ls, type, i, pts, seenTimestaps) ==
  IF i > Len(ls) THEN pts
  ELSE
    LET line == ls[i]
        parts == Split(line)
        reception_timestamp == Part(parts, 0)
        lon == Part(parts, 3)
        lat == Part(parts, 5)
        speed == Part(parts, 11)
    IN IF StartsWithHash(line) THEN ScanTTP(ls, type, i + 1, pts, seenTimestaps)
       ELSE IF \/ parseFloat(reception_timestamp) = 0
               \/ reception_timestamp \in seenTimestaps
       THEN ScanTTP(ls, type, i + 1, pts, seenTimestaps)
       ELSE IF Part(parts, 1) # type
       THEN ScanTTP(ls, type, i + 1, pts, seenTimestaps)
       ELSE IF FalsyString(lon) \/ FalsyString(lat) \/ FalsyString(speed)
       THEN ScanTTP(ls, type, i + 1, pts, seenTimestaps \cup {reception_timestamp})
       ELSE ScanTTP(ls, type, i + 1,
                    Append(pts, [timestamp |-> reception_timestamp,
                                 latitude  |-> parseFloat(lat),
                                 longitude |-> parseFloat(lon),
                                 speed     |-> toFixed2(parseFloat(speed))]),
                    seenTimestaps \cup {reception_timestamp})

RECURSIVE ScanTTPNoSeen(_, _, _, _)
\* the forEach of parseTTPPoints without the set of seen timestamps
ScanTTPNoSeen(ls, type, i, pts) ==
  IF i > Len(ls) THEN pts
  ELSE
    LET parts == Split(ls[i])
    IN IF \/ StartsWithHash(ls[i])
          \/ parseFloat(Part(parts, 0)) = 0
          \/ Part(parts, 1) # type
          \/ FalsyString(Part(parts, 3))
          \/ FalsyString(Part(parts, 5))
          \/ FalsyString(Part(parts, 11))
       THEN ScanTTPNoSeen(ls, type, i + 1, pts)
       ELSE ScanTTPNoSeen(ls, type, i + 1,
                          Append(pts, [timestamp |-> Part(parts, 0),
                                       latitude  |-> parseFloat(Part(parts, 5)),
                                       longitude |-> parseFloat(Part(parts, 3)),
                                       speed     |-> toFixed2(parseFloat(Part(parts, 11)))]))

\* parseTTPPoints without the duplicate suppression
parseTTPPointsNoSeen(ls, type) == ScanTTPNoSeen(ls, type, 1, <<>>)

RECURSIVE ScanTTPForgettingIncomplete(_, _, _, _, _)
\* the forEach of parseTTPPoints when a record without longitude, latitude
\* or speed leaves the set of seen timestamps as it was
ScanTTPForgettingIncomplete(ls, type, i, pts, seenTimestaps) ==
  IF i > Len(ls) THEN pts
  ELSE
    LET parts == Split(ls[i])
    IN IF \/ StartsWithHash(ls[i])
          \/ parseFloat(Part(parts, 0)) = 0
          \/ Part(parts, 0) \in seenTimestaps
          \/ Part(parts, 1) # type
          \/ FalsyString(Part(parts, 3))
          \/ FalsyString(Part(parts, 5))
          \/ FalsyString(Part(parts, 11))
       THEN ScanTTPForgettingIncomplete(ls, type, i + 1, pts, seenTimestaps)
       ELSE ScanTTPForgettingIncomplete(
              ls, type, i + 1,
              Append(pts, [timestamp |-> Part(parts, 0),
                           latitude  |-> parseFloat(Part(parts, 5)),
                           longitude |-> parseFloat(Part(parts, 3)),
                           speed     |-> toFixed2(parseFloat(Part(parts, 11)))]),
              seenTimestaps \cup {Part(parts, 0)})

\* parseTTPPoints when incomplete records do not mark their timestamp seen
parseTTPPointsForgettingIncomplete(ls, type) ==
  ScanTTPForgettingIncomplete(ls, type, 1, <<>>, {})

parseTTPPoints(ls, type) == ScanTTP(ls, type, 1, <<>>, {})

\* lines[0].slice(header.length): the version read right after the prefix
TtpVersionNoSeparator(line) == line.rest

\* lines[0].slice(header.length + 1) of a header line
TtpVersion(line) == IF line.rest = <<>> THEN <<>> ELSE Tail(line.rest)

supportedTtpVersion == <<"0", ".", "7">>

\* a single-leg route with a derived summary, or the exception of
\* calculateTravelTimeInSeconds
DerivedRoute(ps, travelTime) ==
  [legs |-> <<[points |-> ps]>>,
   summary |-> [lengthInMeters |-> calculateDistanceInMeters(ps),
                travelTimeInSeconds |-> travelTime],
   guidance |-> [instructions |-> <<>>]]

\* the result of an extractor: whether it threw, the routes it returned and
\* the messages it passed to onSuccess before returning or throwing
Extracted(rs, ms) == [threw |-> FALSE, routes |-> rs, msgs |-> ms]
Failed(ms) == [threw |-> TRUE, routes |-> <<>>, msgs |-> ms]

\* the if/else chain of parseTTP mistaken in its last comparison (>= for >)
ChooseChannelTieToOutgoing(incoming_points, outgoing_points) ==
  IF incoming_points = <<>>
  THEN [points |-> outgoing_points,
        message |-> "No incoming locations found in TTP, using outgoing locations"]
  ELSE IF outgoing_points = <<>>
  THEN [points |-> incoming_points,
        message |-> "No outgoing locations found in TTP, using incoming locations"]
  ELSE IF Len(outgoing_points) >= Len(incoming_points)
  THEN [points |-> outgoing_points, message |-> "Using TTP outgoing locations"]
  ELSE [points |-> incoming_points, message |-> "Using TTP incoming locations"]

\* the if/else chain of parseTTP: the points used and the message sent
ChooseChannel(incoming_points, outgoing_points) ==
  IF incoming_points = <<>>
  THEN [points |-> outgoing_points,
        message |-> "No incoming locations found in TTP, using outgoing locations"]
  ELSE IF outgoing_points = <<>>
  THEN [points |-> incoming_points,
        message |-> "No outgoing locations found in TTP, using incoming locations"]
  ELSE IF Len(outgoing_points) > Len(incoming_points)
  THEN [points |-> outgoing_points, message |-> "Using TTP outgoing locations"]
  ELSE [points |-> incoming_points, message |-> "Using TTP incoming locations"]

parseTTP(ls) ==
  IF ~StartsWithHeader(ls[1]) THEN Failed(<<>>)
  ELSE IF TtpVersion(ls[1]) # supportedTtpVersion THEN Failed(<<>>)
  ELSE
    LET incoming_points == parseTTPPoints(ls, TYPE_INCOMING_LOCATION)
        outgoing_points == parseTTPPoints(ls, TYPE_OUTGOING_LOCATION)
        chosen == ChooseChannel(incoming_points, outgoing_points)
        ps == chosen.points
        message == chosen.message
        time == calculateTravelTimeInSeconds(ps)
    IN IF time.threw THEN Failed(<<message>>)
       ELSE Extracted(<<DerivedRoute(ps, time.value)>>, <<message>>)

-----------------------------------------------------------------------------
(* JSON route extractor *)

supportedVersion == "0.0.12"

\* JSON.parse(text) succeeds exactly on a text that is one JSON document
IsJSON(t) == Len(t) = 1 /\ t[1].kind = "json"

\* parseJSON returning only the first route of the array
parseJSONFirstRoute(t) ==
  IF IsJSON(t) /\ ~t[1].value.isNull /\ t[1].value.formatVersion = supportedVersion
     /\ t[1].value.routes.array /\ t[1].value.routes.items # <<>>
  THEN Extracted(<<t[1].value.routes.items[1]>>, <<"Using routes from JSON response">>)
  ELSE Failed(<<>>)

\* parseJSON without the check of formatVersion
parseJSONAnyVersion(t) ==
  IF ~IsJSON(t) THEN Failed(<<>>)
  ELSE
    LET json == t[1].value
    IN IF json.isNull THEN Failed(<<>>)
       ELSE IF json.routes.array
       THEN Extracted(json.routes.items, <<"Using routes from JSON response">>)
       ELSE Failed(<<>>)

parseJSON(t) ==
  IF ~IsJSON(t) THEN Failed(<<>>)
  ELSE
    LET json == t[1].value
    IN IF json.isNull THEN Failed(<<>>)
       ELSE IF json.formatVersion # supportedVersion THEN Failed(<<>>)
       ELSE IF json.routes.array
       THEN Extracted(json.routes.items, <<"Using routes from JSON response">>)
       ELSE Failed(<<>>)

-----------------------------------------------------------------------------
(* Free-text coordinate extractor *)

\* the matches of one regular expression: regex_with_named_args matches the
\* mentions written GeoPoint(latitude = x, longitude = y), regex_with_args
\* those written GeoPoint(x, y)
MatchesOf(t, form) == SelectSeq(Mentions(t), LAMBDA m : m.form = form)

\* the body of the while loop when it tests the longitude only
PointsOfMatchesLongitudeOnly(ms) ==
  LET kept == SelectSeq(ms, LAMBDA m : ~FalsyNumber(parseFloat(m.lon)))
  IN [i \in 1..Len(kept) |-> [timestamp |-> "null",
                              latitude  |-> parseFloat(kept[i].lat),
                              longitude |-> parseFloat(kept[i].lon),
                              speed     |-> Null]]

\* the body of the while loop, over the matches of one regular expression
PointsOfMatches(ms) ==
  LET kept == SelectSeq(ms, LAMBDA m : ~FalsyNumber(parseFloat(m.lat))
                                       /\ ~FalsyNumber(parseFloat(m.lon)))
  IN [i \in 1..Len(kept) |-> [timestamp |-> "null",
                              latitude  |-> parseFloat(kept[i].lat),
                              longitude |-> parseFloat(kept[i].lon),
                              speed     |-> Null]]

parsePastedCoordinates(t) ==
  LET navigationPoints == PointsOfMatches(MatchesOf(t, "GeoNamed"))
                          \o PointsOfMatches(MatchesOf(t, "GeoArgs"))
  IN IF navigationPoints = <<>> THEN Failed(<<>>)
     ELSE Extracted(<<DerivedRoute(navigationPoints, 0)>>,
                    <<"Using pasted coordinates">>)

-----------------------------------------------------------------------------
(* Delimited-telemetry extractor *)

\* Papa.parse(text, {header: true}): the first line names the columns and
\* every later line is one row; row[name] is the cell under that name, and
\* undefined when the row is too short or no column has the name
Field(names, cells, name) ==
  IF \E k \in 1..Len(names) : names[k] = name /\ k <= Len(cells)
  THEN cells[CHOOSE k \in 1..Len(names) : names[k] = name /\ k <= Len(cells)]
  ELSE Undef

PapaParse(t) ==
  [i \in 1..(Len(t) - 1) |->
    LET names == Split(t[1])
        cells == Split(t[i + 1])
    IN [lat |-> Field(names, cells, "lat"),
        lon |-> Field(names, cells, "lon"),
        source_timestamp |-> Field(names, cells, "source_timestamp"),
        speed |-> Field(names, cells, "speed")]]

\* the rows that pass the filter of parseCSVPoints
FilterLocations(locations) ==
  SelectSeq(locations, LAMBDA l : /\ l.lat # Undef
                                  /\ l.lon # Undef
                                  /\ l.source_timestamp # Undef)

\* location.speed.toString() throws on a row without speed
parseCSVPoints(locations) ==
  LET kept == FilterLocations(locations)
  IN IF \E i \in 1..Len(kept) : kept[i].speed = Undef THEN Throws
     ELSE Returns([i \in 1..Len(kept) |->
                     [timestamp |-> kept[i].source_timestamp,
                      latitude  |-> parseFloat(kept[i].lat),
                      longitude |-> parseFloat(kept[i].lon),
                      speed     |-> toFixed2(parseFloat(kept[i].speed))]])

parseCSV(t) ==
  LET parsed == parseCSVPoints(PapaParse(t))
  IN IF parsed.threw THEN Failed(<<>>)
     ELSE IF parsed.value = <<>> THEN Extracted(<<>>, <<>>)
     ELSE LET time == calculateTravelTimeInSeconds(parsed.value)
          IN IF time.threw THEN Failed(<<>>)
             ELSE Extracted(<<DerivedRoute(parsed.value, time.value)>>,
                            <<"Using CSV locations">>)

-----------------------------------------------------------------------------
(* Format dispatcher *)

\* the extractor called at each position of the cascade
Extractor(stage, t) ==
  CASE stage = "json"   -> parseJSON(t)
    [] stage = "ttp"    -> parseTTP(t)
    [] stage = "pasted" -> parsePastedCoordinates(t)
    [] stage = "csv"    -> parseCSV(t)

\* the catch block that handles an exception of each extractor: the next
\* extractor to try, or "fail" for the last block, which reports the failure
\* ("propagate" stands for no enclosing catch block)
\* the cascade with the delimited-telemetry extractor before the free-text one
OnCatchCsvFirst(stage) ==
  CASE stage = "json"   -> "ttp"
    [] stage = "ttp"    -> "csv"
    [] stage = "csv"    -> "pasted"
    [] stage = "pasted" -> "fail"

\* the cascade without the innermost catch block
OnCatchNoLastCatch(stage) ==
  CASE stage = "json"   -> "ttp"
    [] stage = "ttp"    -> "pasted"
    [] stage = "pasted" -> "csv"
    [] stage = "csv"    -> "propagate"

OnCatch(stage) ==
  CASE stage = "json"   -> "ttp"
    [] stage = "ttp"    -> "pasted"
    [] stage = "pasted" -> "csv"
    [] stage = "csv"    -> "fail"

\* extractRoutes is called: the guard on the empty text, then the first try
Call(t) ==
  /\ pc = "idle"
  /\ text' = t
  /\ attempted' = <<>>
  /\ successes' = <<>>
  /\ failures' = <<>>
  /\ returned' = <<>>
  /\ pc' = IF Len(t) = 0 THEN "done" ELSE "json"
  /\ UNCHANGED <<ttpVars, projectorVars, timeVars, otherVars>>

\* one try block of the cascade: the extractor runs; it returns, and
\* extractRoutes returns its routes, or it throws, and the catch block runs
Try(stage) ==
  /\ pc = stage
  /\ LET r == Extractor(stage, text)
         handler == OnCatch(stage)
     IN /\ attempted' = Append(attempted, stage)
        /\ successes' = successes \o r.msgs
        /\ IF ~r.threw
           THEN /\ returned' = r.routes
                /\ failures' = failures
                /\ pc' = "done"
           ELSE IF handler = "fail"
           THEN /\ returned' = <<>>
                /\ failures' = Append(failures, "Error parsing file")
                /\ pc' = "done"
           ELSE IF handler = "propagate"
           THEN /\ UNCHANGED <<returned, failures>>
                /\ pc' = "thrown"
           ELSE /\ UNCHANGED <<returned, failures>>
                /\ pc' = handler
  /\ UNCHANGED <<text, ttpVars, projectorVars, timeVars, otherVars>>

TryJSON == Try("json")
TryTTP == Try("ttp")
TryPasted == Try("pasted")
TryCSV == Try("csv")

-----------------------------------------------------------------------------
(* The inputs of the model *)

\* a point, as the extractors build it
Point(ts, lat, lon) ==
  [timestamp |-> ts, latitude |-> parseFloat(lat), longitude |-> parseFloat(lon),
   speed |-> Null]

\* routes of a JSON response: scenario A of the specification (one leg, one
\* point) and a two-leg route whose legs share the boundary point
RouteA ==
  [legs |-> <<[points |-> <<Point("null", "52", "4")>>]>>,
   summary |-> [lengthInMeters |-> 0, travelTimeInSeconds |-> 0],
   guidance |-> [instructions |-> <<>>]]
RouteB ==
  [legs |-> <<[points |-> <<Point("null", "52", "4"), Point("null", "52", "5")>>],
              [points |-> <<Point("null", "52", "5"), Point("null", "53", "5")>>]>>,
   summary |-> [lengthInMeters |-> 179652820, travelTimeInSeconds |-> 7000000],
   guidance |-> [instructions |-> <<>>]]

JsonArray(items) == [array |-> TRUE, items |-> items]
JsonOther == [array |-> FALSE]

\* JSON documents: null, and objects with or without the supported version,
\* with routes missing or not an array, empty, or holding one or two routes
JsonValues ==
  {[isNull |-> TRUE]}
  \cup {[isNull |-> FALSE, formatVersion |-> v, routes |-> r] :
          v \in {supportedVersion, "0.0.11", Undef},
          r \in {JsonOther, JsonArray(<<>>), JsonArray(<<RouteA>>),
                 JsonArray(<<RouteB, RouteA>>)}}

JsonTexts == {<<[kind |-> "json", value |-> v]>> : v \in JsonValues}

\* the first line of a positioning log: the header prefix followed by
\* " 0.7", by " 0.8", by "0.7" without a separator, or by "-0.7"
HeaderLines ==
  {[kind |-> "hdr", rest |-> r] :
     r \in {<<" ", "0", ".", "7">>, <<" ", "0", ".", "8">>, <<"0", ".", "7">>,
            <<"-", "0", ".", "7">>}}

ValidHeader == [kind |-> "hdr", rest |-> <<" ", "0", ".", "7">>]

\* a record line of a positioning log: timestamp, type, longitude (field 3),
\* latitude (field 5) and speed (field 11)
Record(ts, type, lat) ==
  [kind |-> "cells",
   cells |-> <<ts, type, "", "4", "", lat, "", "", "", "", "", "3.456">>]

\* a record line cut short after the latitude: it has no speed
ShortRecord(ts, type) ==
  [kind |-> "cells", cells |-> <<ts, type, "", "4", "", "52">>]

Types == {TYPE_INCOMING_LOCATION, TYPE_OUTGOING_LOCATION}

PlainComment == [kind |-> "comment", mentions |-> <<>>]
GeoComment ==
  [kind |-> "comment",
   mentions |-> <<[form |-> "GeoArgs", lat |-> "52", lon |-> "4"]>>]

\* body lines of the positioning logs handed to the dispatcher
DispatchBodyLines ==
  {Record(ts, type, "52") : ts \in {"1", "x", "y"}, type \in Types}
  \cup {Record("2", TYPE_INCOMING_LOCATION, ""),
        Record("1", TYPE_INCOMING_LOCATION, "x")}
  \cup {PlainComment, GeoComment}

TtpTexts ==
  {<<h>> \o b : h \in HeaderLines, b \in SeqsOf(DispatchBodyLines, 0, MaxBody)}

\* body lines of the positioning logs handed to parseTTP: complete records,
\* records without latitude, zero-timestamp records, a record without speed
\* and a comment
TtpBodyLines ==
  {Record(ts, type, lat) :
     ts \in {"1", "2", "x"}, type \in Types, lat \in {"52", "53"}}
  \cup {Record(ts, type, "") : ts \in {"1", "2"}, type \in Types}
  \cup {Record("0", type, "52") : type \in Types}
  \cup {ShortRecord("1", TYPE_INCOMING_LOCATION), PlainComment}

TtpLogs == {<<ValidHeader>> \o b : b \in SeqsOf(TtpBodyLines, 0, MaxLines)}

\* delimited telemetry: a header line naming the columns, then rows
CsvHeaders ==
  {[kind |-> "cells", cells |-> c] :
     c \in {<<"source_timestamp", "lon", "lat", "speed">>,
            <<"source_timestamp", "lon", "lat">>,
            <<"source_timestamp", "lon", "speed">>}}

CsvRows ==
  {[kind |-> "cells", cells |-> c] :
     c \in {<<"1", "4", "52", "3">>, <<"2", "5", "53", "3.456">>,
            <<"x", "4", "52", "3">>, <<"y", "5", "52", "3">>,
            <<"1", "4">>, <<"2", "4", "52">>, <<"1", "4", "", "3">>}}

CsvTexts == {<<h>> \o b : h \in CsvHeaders, b \in SeqsOf(CsvRows, 0, MaxRows)}

\* free text: lines with one coordinate mention each
MentionSet ==
  {[form |-> f, lat |-> c[1], lon |-> c[2]] :
     f \in {"GeoNamed", "GeoArgs", "Named", "Bare"},
     c \in {<<"52", "4">>, <<"53", "5">>, <<"0", "4">>, <<"52", "-">>}}

FreeTexts ==
  {[i \in 1..Len(ms) |-> [kind |-> "text", mentions |-> <<ms[i]>>]] :
     ms \in SeqsOf(MentionSet, 1, MaxMentions)}

Texts == {<<>>} \cup JsonTexts \cup TtpTexts \cup CsvTexts \cup FreeTexts

-----------------------------------------------------------------------------
(* Specification of the dispatcher *)

IdleTTP == lines = <<>> /\ ttp = None
IdleProjectors == route = None /\ flat = None /\ waypoints = None
IdleTime == points = <<>> /\ elapsed = None
IdleDistance == distance = None
IdleOutcome == mpc = "idle" /\ tried = <<>> /\ outcome = None
IdleMaybe == maybe = None /\ ran = <<>>
IdleApp == app = None /\ timers = <<>>
IdleOther == IdleDistance /\ IdleOutcome /\ IdleMaybe /\ IdleApp
IdleDispatcher ==
  /\ text = <<>>
  /\ pc = "idle"
  /\ attempted = <<>>
  /\ successes = <<>>
  /\ failures = <<>>
  /\ returned = <<>>

Init == IdleDispatcher /\ IdleTTP /\ IdleProjectors /\ IdleTime /\ IdleOther

Next ==
  \/ \E t \in Texts : Call(t)
  \/ TryJSON
  \/ TryTTP
  \/ TryPasted
  \/ TryCSV

Spec == Init /\ [][Next]_vars

-----------------------------------------------------------------------------
(* C1 *)

\* the extractor that emits a success message
SourceOf(message) ==
  CASE message = "Using routes from JSON response" -> "json"
    [] message = "Using pasted coordinates" -> "pasted"
    [] message = "Using CSV locations" -> "csv"
    [] OTHER -> "ttp"

SuccessOutcome ==
  /\ returned # <<>>
  /\ Len(successes) = 1
  /\ failures = <<>>
  /\ SourceOf(successes[1]) = attempted[Len(attempted)]

FailureOutcome ==
  /\ returned = <<>>
  /\ Len(failures) = 1
  /\ successes = <<>>

\* C1: every call of extractRoutes ends in exactly one outcome: success (a
\* non-empty route set, exactly one success message, sent by the extractor
\* whose routes are returned, and no failure message) or failure (no route,
\* exactly one failure message and no success message).
C1_ExactlyOneOutcome == pc = "done" => (SuccessOutcome \/ FailureOutcome)

-----------------------------------------------------------------------------
(* C2 *)

\* the text parses as JSON with the supported formatVersion and a non-empty
\* routes array
JsonAccepted(t) ==
  /\ IsJSON(t)
  /\ ~t[1].value.isNull
  /\ t[1].value.formatVersion = "0.0.12"
  /\ t[1].value.routes.array
  /\ t[1].value.routes.items # <<>>

-----------------------------------------------------------------------------
(* C3 *)

\* C3 as stated: the extractors are tried in the order JSON,
\* positioning-log, delimited-telemetry, free-text.
C3_SpecOrder == IsPrefix(attempted, <<"json", "ttp", "csv", "pasted">>)

CodeOrder == <<"json", "ttp", "pasted", "csv">>

\* C3 as amended: the extractors are tried in the order JSON,
\* positioning-log, free-text, delimited-telemetry; an extractor is attempted
\* only after every earlier one has thrown on the same text, and none is
\* attempted after the first one that returns.
C3_CodeOrder ==
  /\ IsPrefix(attempted, CodeOrder)
  /\ \A i \in 1..Len(attempted) :
       \/ Extractor(attempted[i], text).threw
       \/ i = Len(attempted) /\ pc = "done"
  /\ pc \in {"json", "ttp", "pasted", "csv"} =>
       /\ Len(attempted) < Len(CodeOrder)
       /\ pc = CodeOrder[Len(attempted) + 1]
       /\ \A i \in 1..Len(attempted) : Extractor(attempted[i], text).threw

C3_Witness ==
  /\ pc = "done"
  /\ attempted = CodeOrder
  /\ returned # <<>>

-----------------------------------------------------------------------------
(* C4 *)

\* C4: for the empty string extractRoutes produces a failure outcome that
\* reaches the caller (a failure message and no routes), attempts no
\* extractor and emits no success message.
C4_EmptyTextFails ==
  (pc = "done" /\ text = <<>>) =>
    /\ returned = <<>>
    /\ Len(failures) = 1
    /\ successes = <<>>
    /\ attempted = <<>>

-----------------------------------------------------------------------------
(* C5 *)

\* C5: extractRoutes returns normally for every text: an exception of an
\* extractor never reaches the caller; it makes the dispatcher try the next
\* extractor or, after the last one, report the terminal failure.
C5_NoExceptionEscapes ==
  /\ pc \in {"idle", "json", "ttp", "pasted", "csv", "done"}
  /\ \A i \in 1..Len(attempted) :
       Extractor(attempted[i], text).threw =>
         IF i < Len(CodeOrder)
         THEN \/ i < Len(attempted) /\ attempted[i + 1] = CodeOrder[i + 1]
              \/ i = Len(attempted) /\ pc = CodeOrder[i + 1]
         ELSE pc = "done" /\ Len(failures) = 1 /\ returned = <<>>

\* all four extractors threw, the delimited-telemetry one on the timestamps
\* of its first two rows, and the terminal failure was reported
C5_Witness ==
  /\ pc = "done"
  /\ attempted = CodeOrder
  /\ Len(failures) = 1
  /\ ~parseCSVPoints(PapaParse(text)).threw

-----------------------------------------------------------------------------
(* Specification of the positioning-log extractor *)

\* parseTTP is called on the lines of a positioning log
ParseTTP ==
  /\ ttp = None
  /\ ttp' = parseTTP(lines)
  /\ UNCHANGED <<lines, dispatcherVars, projectorVars, timeVars, otherVars>>

InitTTP ==
  /\ lines \in TtpLogs
  /\ ttp = None
  /\ IdleDispatcher /\ IdleProjectors /\ IdleTime /\ IdleOther

NextTTP == ParseTTP

SpecTTP == InitTTP /\ [][NextTTP]_vars

-----------------------------------------------------------------------------
(* C6, C7 *)

\* line i is a record of the channel: not a comment, with the type code
IsRecordOf(ls, i, type) ==
  /\ ls[i].kind = "cells"
  /\ Len(ls[i].cells) >= 2
  /\ ls[i].cells[2] = type

\* the cell at column c (counted from 0) of record i is present and not empty
HasCell(ls, i, c) == Len(ls[i].cells) > c /\ ls[i].cells[c + 1] # ""

\* the records of a channel that make up its point list: complete (longitude,
\* latitude and speed present), with a non-zero reception timestamp, and the
\* first record of the channel with that reception timestamp
Kept(ls, type) ==
  {i \in 1..Len(ls) :
     /\ IsRecordOf(ls, i, type)
     /\ parseFloat(ls[i].cells[1]) # 0
     /\ HasCell(ls, i, 3) /\ HasCell(ls, i, 5) /\ HasCell(ls, i, 11)
     /\ ~\E j \in 1..(i - 1) :
           IsRecordOf(ls, j, type) /\ ls[j].cells[1] = ls[i].cells[1]}

\* the points of the kept records, in file order
ChannelPoints(ls, type) ==
  LET order == SelectSeq([i \in 1..Len(ls) |-> i], LAMBDA i : i \in Kept(ls, type))
  IN [k \in 1..Len(order) |->
        [timestamp |-> ls[order[k]].cells[1],
         latitude  |-> parseFloat(ls[order[k]].cells[6]),
         longitude |-> parseFloat(ls[order[k]].cells[4]),
         speed     |-> toFixed2(parseFloat(ls[order[k]].cells[12]))]]

Yields(ls, type) == Kept(ls, type) # {}

NamesOutgoing(message) ==
  message \in {"No incoming locations found in TTP, using outgoing locations",
               "Using TTP outgoing locations"}
NamesIncoming(message) ==
  message \in {"No outgoing locations found in TTP, using incoming locations",
               "Using TTP incoming locations"}

\* the extractor returned one route of one leg with these points, and sent
\* one message; it throws exactly when the elapsed time of the points does
RouteOf(r, ps) ==
  /\ r.threw = calculateTravelTimeInSeconds(ps).threw
  /\ Len(r.msgs) = 1
  /\ ~r.threw =>
       /\ Len(r.routes) = 1
       /\ Len(r.routes[1].legs) = 1
       /\ r.routes[1].legs[1].points = ps

\* C6: when exactly one channel yields points, the route's single leg holds
\* exactly that channel's complete records in file order: of the records of
\* the channel with one reception timestamp only the first counts, records
\* with a zero timestamp and comment lines are excluded; the message names
\* the channel.
C6_SingleChannelVerbatim ==
  ttp # None =>
    /\ (Yields(lines, TYPE_OUTGOING_LOCATION) /\ ~Yields(lines, TYPE_INCOMING_LOCATION)) =>
         /\ RouteOf(ttp, ChannelPoints(lines, TYPE_OUTGOING_LOCATION))
         /\ NamesOutgoing(ttp.msgs[1])
    /\ (Yields(lines, TYPE_INCOMING_LOCATION) /\ ~Yields(lines, TYPE_OUTGOING_LOCATION)) =>
         /\ RouteOf(ttp, ChannelPoints(lines, TYPE_INCOMING_LOCATION))
         /\ NamesIncoming(ttp.msgs[1])

\* only the outgoing channel yields points, one of its records repeats a
\* reception timestamp, and a route of two points is returned
C6_Witness ==
  /\ ttp # None
  /\ ~ttp.threw
  /\ ~Yields(lines, TYPE_INCOMING_LOCATION)
  /\ Len(ttp.routes[1].legs[1].points) = 2
  /\ NamesOutgoing(ttp.msgs[1])
  /\ \E i, j \in 2..Len(lines) :
       /\ i < j
       /\ IsRecordOf(lines, i, TYPE_OUTGOING_LOCATION)
       /\ IsRecordOf(lines, j, TYPE_OUTGOING_LOCATION)
       /\ lines[i].cells[1] = lines[j].cells[1]
       /\ lines[i].cells[6] # lines[j].cells[6]

\* C7: when both channels yield points, the route's points are the outgoing
\* list when it is strictly longer than the incoming list, and the incoming
\* list otherwise; the message names the channel chosen.
C7_LongerChannelWins ==
  (/\ ttp # None
   /\ Yields(lines, TYPE_OUTGOING_LOCATION)
   /\ Yields(lines, TYPE_INCOMING_LOCATION)) =>
    LET out == ChannelPoints(lines, TYPE_OUTGOING_LOCATION)
        inc == ChannelPoints(lines, TYPE_INCOMING_LOCATION)
    IN IF Len(out) > Len(inc)
       THEN RouteOf(ttp, out) /\ NamesOutgoing(ttp.msgs[1])
       ELSE RouteOf(ttp, inc) /\ NamesIncoming(ttp.msgs[1])

\* both channels yield points and the outgoing list, being longer, is used
C7_Witness ==
  /\ ttp # None
  /\ ~ttp.threw
  /\ Yields(lines, TYPE_INCOMING_LOCATION)
  /\ Len(ChannelPoints(lines, TYPE_OUTGOING_LOCATION)) = 2
  /\ ttp.routes[1].legs[1].points = ChannelPoints(lines, TYPE_OUTGOING_LOCATION)

-----------------------------------------------------------------------------
(* Post-extraction projectors *)

\* undefined, as an element of an array of points
Undefined == [undefined |-> TRUE]

\* leg && leg.points && Array.isArray(leg.points)
HasPointList(leg) == "points" \in DOMAIN leg

\* array.slice(1)
Slice1(a) == IF a = <<>> THEN <<>> ELSE Tail(a)

\* array[0] and array[array.length - 1]
FirstOf(a) == IF a = <<>> THEN Undefined ELSE a[1]
LastOf(a) == IF a = <<>> THEN Undefined ELSE a[Len(a)]

RECURSIVE PushPoints(_, _, _)
\* the forEach of extractPoints from leg i on (index = i - 1), with the
\* points pushed so far
PushPoints(legs, i, acc) ==
  IF i > Len(legs) THEN acc
  ELSE IF HasPointList(legs[i])
  THEN IF i - 1 > 0
       THEN PushPoints(legs, i + 1, acc \o Slice1(legs[i].points))
       ELSE PushPoints(legs, i + 1, acc \o legs[i].points)
  ELSE PushPoints(legs, i + 1, acc)

\* extractPoints with every leg pushed whole
extractPointsKeepingBoundary(r) ==
  Concat([i \in 1..Len(r.legs) |->
            IF HasPointList(r.legs[i]) THEN r.legs[i].points ELSE <<>>])

extractPoints(r) == PushPoints(r.legs, 1, <<>>)

RECURSIVE PushWaypoints(_, _, _)
\* the forEach of extractWaypoints from leg i on, with the waypoints so far
PushWaypoints(legs, i, acc) ==
  IF i > Len(legs) THEN acc
  ELSE IF HasPointList(legs[i])
  THEN LET withFirst == Append(acc, FirstOf(legs[i].points))
       IN IF i - 1 = Len(legs) - 1
          THEN PushWaypoints(legs, i + 1, Append(withFirst, LastOf(legs[i].points)))
          ELSE PushWaypoints(legs, i + 1, withFirst)
  ELSE PushWaypoints(legs, i + 1, acc)

\* extractWaypoints without the arrival point
extractWaypointsNoArrival(r) ==
  LET listed == SelectSeq(r.legs, HasPointList)
  IN [i \in 1..Len(listed) |-> FirstOf(listed[i].points)]

extractWaypoints(r) == PushWaypoints(r.legs, 1, <<>>)

-----------------------------------------------------------------------------
(* Specification of the projectors *)

PointA == Point("1", "52", "4")
PointB == Point("2", "52", "5")
PointC == Point("3", "53", "5")

\* the point lists of a leg: empty, one point, two points
LegPointLists ==
  {<<>>, <<PointA>>, <<PointB>>, <<PointA, PointB>>, <<PointB, PointC>>,
   <<PointC, PointA>>}

\* a leg with a point list, or a leg of a JSON response that has none
ProjectorLegs == {[points |-> ps] : ps \in LegPointLists} \cup {[summary |-> Null]}

ProjectorRoutes ==
  {[legs |-> ls,
    summary |-> [lengthInMeters |-> 0, travelTimeInSeconds |-> 0],
    guidance |-> [instructions |-> <<>>]] :
     ls \in SeqsOf(ProjectorLegs, 0, MaxLegs)}

ExtractPoints ==
  /\ flat = None
  /\ flat' = Returns(extractPoints(route))
  /\ UNCHANGED <<route, waypoints, dispatcherVars, ttpVars, timeVars, otherVars>>

ExtractWaypoints ==
  /\ waypoints = None
  /\ waypoints' = Returns(extractWaypoints(route))
  /\ UNCHANGED <<route, flat, dispatcherVars, ttpVars, timeVars, otherVars>>

InitProjectors ==
  /\ route \in ProjectorRoutes
  /\ flat = None
  /\ waypoints = None
  /\ IdleDispatcher /\ IdleTTP /\ IdleTime /\ IdleOther

NextProjectors == ExtractPoints \/ ExtractWaypoints

SpecProjectors == InitProjectors /\ [][NextProjectors]_vars

-----------------------------------------------------------------------------
(* C8 *)

\* what leg i adds to the flattened points: all its points for the first
\* leg, its points without the first one for a later leg
Contribution(legs, i) ==
  IF ~HasPointList(legs[i]) THEN <<>>
  ELSE IF i = 1 THEN legs[i].points
  ELSE [k \in 1..(Len(legs[i].points) - 1) |-> legs[i].points[k + 1]]

\* a route of two legs that share the boundary point
SharedBoundary(r) ==
  /\ Len(r.legs) = 2
  /\ HasPointList(r.legs[1]) /\ r.legs[1].points # <<>>
  /\ HasPointList(r.legs[2]) /\ r.legs[2].points # <<>>
  /\ r.legs[1].points[Len(r.legs[1].points)] = r.legs[2].points[1]

\* C8: extractPoints returns the points of the first leg followed, leg by
\* leg, by the points of each later leg without its first point; for two
\* legs that share the boundary point the result has len(leg1)+len(leg2)-1
\* points and holds the shared point once, at the boundary.
C8_FlattenDropsBoundary ==
  flat # None =>
    /\ flat.value = Concat([i \in 1..Len(route.legs) |-> Contribution(route.legs, i)])
    /\ SharedBoundary(route) =>
         LET leg1 == route.legs[1].points
             leg2 == route.legs[2].points
         IN /\ Len(flat.value) = Len(leg1) + Len(leg2) - 1
            /\ \A k \in 1..Len(leg1) : flat.value[k] = leg1[k]
            /\ \A k \in 2..Len(leg2) : flat.value[Len(leg1) + k - 1] = leg2[k]

C8_Witness ==
  /\ flat # None
  /\ SharedBoundary(route)
  /\ Len(route.legs[1].points) = 2
  /\ Len(flat.value) = 3

-----------------------------------------------------------------------------
(* C9 *)

\* C9 as stated: for every route of n legs the result has exactly n+1
\* waypoints: the first point of every leg, in leg order, then the last
\* point of the final leg.
C9_NPlusOneWaypoints ==
  waypoints # None =>
    LET n == Len(route.legs)
    IN /\ Len(waypoints.value) = n + 1
       /\ \A i \in 1..n : /\ HasPointList(route.legs[i])
                          /\ route.legs[i].points # <<>>
                          /\ waypoints.value[i] = route.legs[i].points[1]
       /\ waypoints.value[n + 1] = route.legs[n].points[Len(route.legs[n].points)]

\* the legs that have a point list
Listed(r) == {i \in 1..Len(r.legs) : HasPointList(r.legs[i])}

\* C9 as amended: a leg without a point list yields no waypoint; for every
\* route of n >= 1 legs that all have a non-empty point list the result has
\* exactly n+1 waypoints: the first point of every leg, in leg order, then
\* the last point of the final leg.
C9_WaypointsOfListedLegs ==
  waypoints # None =>
    LET n == Len(route.legs)
    IN /\ Len(waypoints.value) =
            Cardinality(Listed(route)) + (IF n >= 1 /\ n \in Listed(route) THEN 1 ELSE 0)
       /\ (n >= 1 /\ \A i \in 1..n : i \in Listed(route) /\ route.legs[i].points # <<>>) =>
            /\ Len(waypoints.value) = n + 1
            /\ \A i \in 1..n : waypoints.value[i] = route.legs[i].points[1]
            /\ waypoints.value[n + 1] = route.legs[n].points[Len(route.legs[n].points)]

C9_Witness ==
  /\ waypoints # None
  /\ Len(route.legs) = 3
  /\ \A i \in 1..3 : i \in Listed(route) /\ route.legs[i].points # <<>>
  /\ Len(waypoints.value) = 4
  /\ waypoints.value[4] # waypoints.value[3]

-----------------------------------------------------------------------------
(* Specification of the elapsed time *)

\* points whose timestamp is a whole number, a number with three decimals,
\* text, or null
TimedPoints ==
  {Point(ts, "52", "4") : ts \in {"1", "2", "1.001", "1.004", "x", "null"}}

CalculateTravelTime ==
  /\ elapsed = None
  /\ elapsed' = calculateTravelTimeInSeconds(points)
  /\ UNCHANGED <<points, dispatcherVars, ttpVars, projectorVars, otherVars>>

InitTime ==
  /\ points \in SeqsOf(TimedPoints, 0, MaxPoints)
  /\ elapsed = None
  /\ IdleDispatcher /\ IdleTTP /\ IdleProjectors /\ IdleOther

NextTime == CalculateTravelTime

SpecTime == InitTime /\ [][NextTime]_vars

-----------------------------------------------------------------------------
(* C10 *)

Parseable(p) == parseFloat(p.timestamp) # NaN

\* the timestamp of p or, when that is unparseable, of q
TimestampOr(p, q) ==
  IF Parseable(p) THEN parseFloat(p.timestamp) ELSE parseFloat(q.timestamp)

\* the call fails exactly when both timestamps of the first pair or both of
\* the last pair are unparseable
FailsOnPairs(ps, r) ==
  r.threw <=> \/ ~Parseable(ps[1]) /\ ~Parseable(ps[2])
              \/ ~Parseable(ps[Len(ps)]) /\ ~Parseable(ps[Len(ps) - 1])

\* C10 as stated: 0 for fewer than 2 points; otherwise end - start, with the
\* fallback to the second and the second-to-last point; it fails exactly
\* when both timestamps of the first pair or of the last pair are unparseable.
C10_ExactDifference ==
  elapsed # None =>
    IF Len(points) < 2 THEN ~elapsed.threw /\ elapsed.value = 0
    ELSE /\ FailsOnPairs(points, elapsed)
         /\ ~elapsed.threw =>
              elapsed.value = TimestampOr(points[Len(points)], points[Len(points) - 1])
                              - TimestampOr(points[1], points[2])

\* v is d rounded to two decimals (a multiple of 0.01 nearest to d)
RoundedTo2(v, d) == v % 10 = 0 /\ v - d <= 5 /\ d - v <= 5

\* C10 as amended: as stated, but the value returned is end - start rounded
\* to two decimals.
C10_RoundedDifference ==
  elapsed # None =>
    IF Len(points) < 2 THEN ~elapsed.threw /\ elapsed.value = 0
    ELSE /\ FailsOnPairs(points, elapsed)
         /\ ~elapsed.threw =>
              RoundedTo2(elapsed.value,
                         TimestampOr(points[Len(points)], points[Len(points) - 1])
                         - TimestampOr(points[1], points[2]))

\* both fallbacks are taken and the result is the difference of the inner
\* timestamps
C10_Witness ==
  /\ elapsed # None
  /\ Len(points) = 4
  /\ ~Parseable(points[1]) /\ ~Parseable(points[4])
  /\ ~elapsed.threw
  /\ elapsed.value = 1000

-----------------------------------------------------------------------------
(* Specification of the total distance *)

\* points on the grid of the model, points whose latitude is 0 or not a
\* number, a point whose longitude is 0 and a point without a latitude
LocatedPoints ==
  {Point("null", lat, lon) : lat \in {"52", "53", "0", "x"}, lon \in {"4", "5"}}
  \cup {Point("null", "52", "0"),
        [Point("null", "52", "4") EXCEPT !.latitude = Null]}

\* Array.prototype.reverse
Reverse(a) == [i \in 1..Len(a) |-> a[Len(a) + 1 - i]]

\* calculateDistanceInMeters(points)
CalculateDistance ==
  /\ distance = None
  /\ distance' = [forward |-> calculateDistanceInMeters(points), backward |-> None]
  /\ UNCHANGED <<timeVars, dispatcherVars, ttpVars, projectorVars,
                 outcomeVars, maybeVars, appVars>>

\* calculateDistanceInMeters(points.reverse())
CalculateDistanceReversed ==
  /\ distance # None
  /\ distance.backward = None
  /\ distance' = [distance EXCEPT
                    !.backward = Returns(calculateDistanceInMeters(Reverse(points)))]
  /\ UNCHANGED <<timeVars, dispatcherVars, ttpVars, projectorVars,
                 outcomeVars, maybeVars, appVars>>

InitDistance ==
  /\ points \in SeqsOf(LocatedPoints, 0, MaxPoints)
  /\ elapsed = None
  /\ IdleDispatcher /\ IdleTTP /\ IdleProjectors /\ IdleOther

NextDistance == CalculateDistance \/ CalculateDistanceReversed

SpecDistance == InitDistance /\ [][NextDistance]_vars

-----------------------------------------------------------------------------
(* C11 *)

-----------------------------------------------------------------------------
(* Specification of the elapsed time of a growing list *)

\* one more point is pushed to the list and the elapsed time is taken again
AppendPoint(q) ==
  /\ elapsed # None
  /\ Len(points) <= MaxPoints
  /\ points' = Append(points, q)
  /\ elapsed' = calculateTravelTimeInSeconds(points')
  /\ UNCHANGED <<dispatcherVars, ttpVars, projectorVars, otherVars>>

NextAppend ==
  \/ CalculateTravelTime
  \/ \E q \in TimedPoints : AppendPoint(q)

SpecAppend == InitTime /\ [][NextAppend]_vars

-----------------------------------------------------------------------------
(* C12 *)

AllParseable(ps) == \A i \in 1..Len(ps) : Parseable(ps[i])

\* a point with the timestamp of the last point has been appended to ps
DuplicateAppended(ps, qs) ==
  /\ Len(qs) = Len(ps) + 1
  /\ SubSeq(qs, 1, Len(ps)) = ps
  /\ qs[Len(qs)].timestamp = ps[Len(ps)].timestamp

\* C12: for every list of at least 2 points with parseable timestamps,
\* appending one more point whose timestamp equals the timestamp of the
\* current last point leaves the result of calculateTravelTimeInSeconds
\* unchanged.
C12_DuplicateTailKeepsTime ==
  [][(/\ elapsed # None
      /\ Len(points) >= 2
      /\ AllParseable(points)
      /\ DuplicateAppended(points, points'))
     => elapsed' = elapsed]_vars

\* a list as long as only an append makes it, ending in two equal
\* timestamps, with a non-zero elapsed time
C12_Witness ==
  /\ elapsed # None
  /\ Len(points) = MaxPoints + 1
  /\ AllParseable(points)
  /\ points[Len(points)].timestamp = points[Len(points) - 1].timestamp
  /\ points[1].timestamp # points[Len(points)].timestamp
  /\ ~elapsed.threw
  /\ elapsed.value # 0

-----------------------------------------------------------------------------
(* C13 *)

\* every point of every leg of the routes rs satisfies P
EveryPoint(rs, P(_)) ==
  \A i \in 1..Len(rs) :
    \A l \in 1..Len(rs[i].legs) :
      \A k \in 1..Len(rs[i].legs[l].points) : P(rs[i].legs[l].points[k])

Numeric(p) == ~isNaN(p.latitude) /\ ~isNaN(p.longitude)

\* the extractor whose result extractRoutes returned
Returning == IF attempted = <<>> THEN "none" ELSE attempted[Len(attempted)]

\* C13: every point of every route returned by the positioning-log, the
\* free-text or the delimited-telemetry extractor has a numeric latitude and
\* a numeric longitude; a record without a usable latitude or longitude is
\* dropped.
C13_NoMissingCoordinates ==
  (pc = "done" /\ Returning \in {"ttp", "pasted", "csv"}) =>
    EveryPoint(returned, Numeric)

-----------------------------------------------------------------------------
(* C14 *)

\* C14: the travelTimeInSeconds of every summary derived by the
\* positioning-log extractor is non-negative, whatever the order of the
\* record timestamps.
C14_TravelTimeNonNegative ==
  (ttp # None /\ ~ttp.threw) =>
    \A i \in 1..Len(ttp.routes) : ttp.routes[i].summary.travelTimeInSeconds >= 0

-----------------------------------------------------------------------------
(* C15 *)

\* C15: the JSON extractor succeeds only with a non-empty routes array; it
\* fails when the document has no routes field, when routes is not an array
\* and when routes is the empty array.
C15_JsonNeedsRoutes ==
  (pc = "done" /\ attempted = <<"json">>) =>
    /\ text[1].value.routes.array
    /\ text[1].value.routes.items # <<>>

-----------------------------------------------------------------------------
(* C17 *)

\* the header and the version of the positioning log match and neither
\* channel yields a point
EmptyLog(t) ==
  /\ t # <<>>
  /\ StartsWithHeader(t[1])
  /\ TtpVersion(t[1]) = supportedTtpVersion
  /\ parseTTPPoints(t, TYPE_INCOMING_LOCATION) = <<>>
  /\ parseTTPPoints(t, TYPE_OUTGOING_LOCATION) = <<>>

\* C17: on a positioning log whose header and version match but whose
\* channels yield no point, the positioning-log extractor fails: it sends no
\* success message and returns no route, and the dispatcher goes on to the
\* next extractor.
C17_EmptyLogFails ==
  (pc = "done" /\ EmptyLog(text)) =>
    /\ \A i \in 1..Len(successes) : SourceOf(successes[i]) # "ttp"
    /\ Returning # "ttp"
    /\ Len(attempted) > 2

-----------------------------------------------------------------------------
(* C18 *)

\* the delimited-telemetry extractor ran and found no usable point
NoCsvPoints ==
  /\ Returning = "csv"
  /\ ~parseCSVPoints(PapaParse(text)).threw
  /\ parseCSVPoints(PapaParse(text)).value = <<>>

\* C18: when the delimited-telemetry extractor finds no usable point it
\* yields no route and this counts as a mismatch: as no extractor is left,
\* the dispatcher reports the terminal failure through the failure message.
C18_EmptyCsvIsMismatch ==
  (pc = "done" /\ NoCsvPoints) =>
    /\ returned = <<>>
    /\ Len(failures) = 1

-----------------------------------------------------------------------------
(* C20 *)

\* the positioning-log extractor was tried
TtpTried == Len(attempted) >= 2 /\ attempted[2] = "ttp"

\* the positioning-log extractor got past the header and the version: it
\* read the records and sent its message
TtpAccepted == \E i \in 1..Len(successes) : SourceOf(successes[i]) = "ttp"

\* C20 as stated: the positioning-log extractor accepts a text exactly when
\* its first line is the header prefix followed by a remainder equal to
\* "0.7"; every other first line is a mismatch and no point is read.
C20_VersionAfterPrefix ==
  (pc = "done" /\ TtpTried) =>
    (TtpAccepted <=> /\ text[1].kind = "hdr"
                     /\ text[1].rest = <<"0", ".", "7">>)

\* C20 as amended: the positioning-log extractor accepts a text exactly when
\* its first line is the header prefix followed by exactly one character and
\* then a remainder equal to "0.7".
C20_VersionAfterSeparator ==
  (pc = "done" /\ TtpTried) =>
    (TtpAccepted <=> /\ text[1].kind = "hdr"
                     /\ Len(text[1].rest) = 4
                     /\ SubSeq(text[1].rest, 2, 4) = <<"0", ".", "7">>)

\* a log whose header separates prefix and version by "-" is accepted and
\* its record becomes the point of the returned route
C20_Witness ==
  /\ pc = "done"
  /\ TtpTried
  /\ text[1].kind = "hdr"
  /\ text[1].rest = <<"-", "0", ".", "7">>
  /\ TtpAccepted
  /\ Returning = "ttp"
  /\ Len(returned) = 1
  /\ Len(returned[1].legs[1].points) = 1

-----------------------------------------------------------------------------
(* The Maybe class *)

\* null, where an object is expected
NullObject == [null |-> TRUE]

\* new Maybe(error, result); both parameters default to null
Maybe(error, result) == [error |-> error, result |-> result]

success(result) == Maybe(NullObject, result)
failure(error) == Maybe(error, NullObject)

isFailure(m) == m.error # NullObject
isSuccess(m) == m.result # NullObject

\* errors and results that the program wraps, and null
ApplicationErrors ==
  {[message |-> m] :
     m \in {"Empty file", "Error parsing text", "No valid routes found.",
            "No valid points found.", "Unsupported version: 0.0.11"}}
WrappedResults ==
  {[routes |-> rs, message |-> m] :
     rs \in {<<RouteA>>, <<RouteB, RouteA>>}, m \in {"JSON", "Pasted points"}}
  \cup {[value |-> "Extracted points"]}
NullableErrors == ApplicationErrors \cup {NullObject}
NullableResults == WrappedResults \cup {NullObject}

\* new Maybe(error, result)
New(error, result) ==
  /\ maybe = None
  /\ maybe' = Maybe(error, result)
  /\ UNCHANGED <<ran, dispatcherVars, ttpVars, projectorVars, timeVars,
                 distanceVars, outcomeVars, appVars>>

\* Maybe.success(result)
Success(result) ==
  /\ maybe = None
  /\ maybe' = success(result)
  /\ UNCHANGED <<ran, dispatcherVars, ttpVars, projectorVars, timeVars,
                 distanceVars, outcomeVars, appVars>>

\* Maybe.failure(error)
Failure(error) ==
  /\ maybe = None
  /\ maybe' = failure(error)
  /\ UNCHANGED <<ran, dispatcherVars, ttpVars, projectorVars, timeVars,
                 distanceVars, outcomeVars, appVars>>

\* the chain maybe.ifSuccess(f).ifFailure(g).finally(h), one method at a
\* time; ran lists the callbacks that have run
IfSuccess ==
  /\ maybe # None
  /\ ran = <<>>
  /\ ran' = <<[method |-> "ifSuccess", called |-> isSuccess(maybe)]>>
  /\ UNCHANGED <<maybe, dispatcherVars, ttpVars, projectorVars, timeVars,
                 distanceVars, outcomeVars, appVars>>

IfFailure ==
  /\ Len(ran) = 1
  /\ ran' = Append(ran, [method |-> "ifFailure", called |-> isFailure(maybe)])
  /\ UNCHANGED <<maybe, dispatcherVars, ttpVars, projectorVars, timeVars,
                 distanceVars, outcomeVars, appVars>>

Finally ==
  /\ Len(ran) = 2
  /\ ran' = Append(ran, [method |-> "finally", called |-> TRUE])
  /\ UNCHANGED <<maybe, dispatcherVars, ttpVars, projectorVars, timeVars,
                 distanceVars, outcomeVars, appVars>>

InitMaybe ==
  /\ IdleDispatcher /\ IdleTTP /\ IdleProjectors /\ IdleTime
  /\ IdleOther

NextMaybe ==
  \/ \E e \in NullableErrors, r \in NullableResults : New(e, r)
  \/ \E r \in NullableResults : Success(r)
  \/ \E e \in NullableErrors : Failure(e)
  \/ IfSuccess
  \/ IfFailure
  \/ Finally

SpecMaybe == InitMaybe /\ [][NextMaybe]_vars

-----------------------------------------------------------------------------
(* C19 *)

\* C19: every Maybe value, built by Maybe.success, by Maybe.failure or by
\* the constructor, is exactly one of success and failure, so the chain
\* ifSuccess(f).ifFailure(g) runs exactly one of f and g, exactly once.
C19_ExactlyOneOfSuccessAndFailure ==
  maybe # None =>
    /\ isSuccess(maybe) # isFailure(maybe)
    /\ Len(ran) >= 2 => ran[1].called # ran[2].called

-----------------------------------------------------------------------------
(* The Maybe-based route utilities (src/unnamed/part_003) *)

\* the strings of the model that consist of digits, "." and "-" only
NumberStrings ==
  {"0", "0.0", "1", "2", "3", "4", "5", "52", "53", "1.001", "1.004", "1.009",
   "3.456", "237", "245", "0.7", "0.8", "-0.7", "-", ".",
   "00", "00.000", "04", "01-02", "123", "456"}

\* s matches [\d.-]+ as a whole
NumberLike(s) == s \in NumberStrings

RECURSIVE JoinChars(_)
\* the string of a sequence of characters
JoinChars(cs) == IF cs = <<>> THEN "" ELSE Head(cs) \o JoinChars(Tail(cs))

\* A text as regex_raw_coordinates sees it: the maximal runs of digits, "."
\* and "-", and Opaque for every other run of characters that are not
\* commas or white space.  A mention is written
\*   GeoNamed  GeoPoint(latitude = x, longitude = y)
\*   GeoArgs   GeoPoint(x, y)
\*   Named     latitude = x, longitude = y;
\*   Bare      x, y;
\*   Colon     lat: x, lon: y;
MentionTokens(m) ==
  CASE m.form = "GeoNamed" -> <<Opaque, m.lat, Opaque, m.lon, Opaque>>
    [] m.form = "Colon"    -> <<Opaque, m.lat, Opaque, m.lon, Opaque>>
    [] m.form = "GeoArgs"  -> <<Opaque, m.lat, m.lon, Opaque>>
    [] m.form = "Named"    -> <<Opaque, m.lat, Opaque, m.lon, Opaque>>
    [] m.form = "Bare"     -> <<m.lat, m.lon, Opaque>>

CellTokens(c) ==
  IF c = "" THEN <<>> ELSE IF NumberLike(c) THEN <<c>> ELSE <<Opaque>>

LineTokens(line) ==
  CASE line.kind = "json"    -> <<Opaque>>
    [] line.kind = "hdr"     ->
         <<Opaque>> \o (IF line.rest = <<>> THEN <<>>
                        ELSE IF Head(line.rest) = " "
                        THEN <<JoinChars(Tail(line.rest))>>
                        ELSE <<JoinChars(line.rest)>>)
    [] line.kind = "cells"   ->
         Concat([i \in 1..Len(line.cells) |-> CellTokens(line.cells[i])])
    [] line.kind = "comment" ->
         <<Opaque>> \o Concat([i \in 1..Len(line.mentions) |->
                                 MentionTokens(line.mentions[i])])
    [] line.kind = "text"    ->
         Concat([i \in 1..Len(line.mentions) |-> MentionTokens(line.mentions[i])])
    [] line.kind = "logcat"  ->
         <<line.date, line.hour, Opaque, line.minute, Opaque, line.second,
           line.pid, line.tid, Opaque>>

TextTokens(t) == Concat([i \in 1..Len(t) |-> LineTokens(t[i])])

RECURSIVE RawPairs(_, _)
\* the matches of regex_raw_coordinates from token i on: two numbers with
\* only commas and white space between them
RawPairs(toks, i) ==
  IF i + 1 > Len(toks) THEN <<>>
  ELSE IF NumberLike(toks[i]) /\ NumberLike(toks[i + 1])
  THEN <<[form |-> "Raw", lat |-> toks[i], lon |-> toks[i + 1]]>>
       \o RawPairs(toks, i + 2)
  ELSE RawPairs(toks, i + 1)

\* the matches of each regular expression of findMatches, in text order
MatchesOfRegex(t, regex) ==
  CASE regex = "regex_with_named_args" -> MatchesOf(t, "GeoNamed")
    [] regex = "regex_with_args" -> MatchesOf(t, "GeoArgs")
    [] regex = "regex_raw_coordinates_with_named_args" ->
         SelectSeq(Mentions(t), LAMBDA m : m.form \in {"GeoNamed", "Named"})
    [] regex = "regex_raw_coordinates" -> RawPairs(TextTokens(t), 1)
    [] regex = "regex_json_coordinates" ->
         SelectSeq(Mentions(t), LAMBDA m : m.form = "Colon")

regexes ==
  <<"regex_with_named_args", "regex_with_args",
    "regex_raw_coordinates_with_named_args", "regex_raw_coordinates">>

RECURSIVE FindFromNoBreak(_, _)
\* the for loop of findMatches without the break: every regular expression
\* adds its points
FindFromNoBreak(t, k) ==
  IF k > Len(regexes) THEN <<>>
  ELSE PointsOfMatches(MatchesOfRegex(t, regexes[k])) \o FindFromNoBreak(t, k + 1)

RECURSIVE FindFrom(_, _)
\* the for loop of findMatches from the k-th regular expression on: it
\* breaks after the first one that yields a point
FindFrom(t, k) ==
  IF k > Len(regexes) THEN <<>>
  ELSE LET result == PointsOfMatches(MatchesOfRegex(t, regexes[k]))
       IN IF result # <<>> THEN result ELSE FindFrom(t, k + 1)

findMatches(t) == FindFrom(t, 1)

\* the route that the Maybe-based extractors build: one leg without a
\* summary and a derived summary
DerivedRouteMaybe(ps, travelTime) ==
  [legs |-> <<[points |-> ps, summary |-> NullObject]>>,
   summary |-> [lengthInMeters |-> calculateDistanceInMeters(ps),
                travelTimeInSeconds |-> travelTime,
                trafficDelayInSeconds |-> Null,
                trafficLengthInMeters |-> Null,
                departureTime |-> "null",
                arrivalTime |-> "null"],
   guidance |-> [instructions |-> <<>>]]

parsePastedCoordinatesMaybe(t) ==
  LET ps == findMatches(t)
  IN IF ps = <<>> THEN Throws
     ELSE Returns(success([routes |-> <<DerivedRouteMaybe(ps, 0)>>,
                           message |-> "Pasted points"]))

parseJSONMaybe(t) ==
  IF ~IsJSON(t) THEN Throws
  ELSE
    LET json == t[1].value
    IN IF json.isNull THEN Throws
       ELSE IF json.formatVersion # supportedVersion
       THEN Returns(failure([message |-> "Unsupported version"]))
       ELSE IF json.routes.array
       THEN Returns(success([routes |-> json.routes.items, message |-> "JSON"]))
       ELSE Throws

\* the if/else chain of the Maybe-based parseTTP
ChooseChannelMaybe(incoming_points, outgoing_points) ==
  IF incoming_points = <<>>
  THEN [points |-> outgoing_points, message |-> "TTP: outgoing locations"]
  ELSE IF outgoing_points = <<>>
  THEN [points |-> incoming_points, message |-> "TTP: incoming locations"]
  ELSE IF Len(outgoing_points) > Len(incoming_points)
  THEN [points |-> outgoing_points, message |-> "TTP: outgoing locations"]
  ELSE [points |-> incoming_points, message |-> "TTP: incoming locations"]

parseTTPMaybe(ls) ==
  IF ~StartsWithHeader(ls[1]) THEN Throws
  ELSE IF TtpVersion(ls[1]) # supportedTtpVersion
  THEN Returns(failure([message |-> "Unsupported TTP version"]))
  ELSE
    LET incoming_points == parseTTPPoints(ls, TYPE_INCOMING_LOCATION)
        outgoing_points == parseTTPPoints(ls, TYPE_OUTGOING_LOCATION)
        chosen == ChooseChannelMaybe(incoming_points, outgoing_points)
        time == calculateTravelTimeInSeconds(chosen.points)
    IN IF time.threw THEN Throws
       ELSE Returns(success([routes |-> <<DerivedRouteMaybe(chosen.points, time.value)>>,
                             message |-> chosen.message]))

\* the extractor called at each position of the Maybe-based cascade
ExtractorMaybe(stage, t) ==
  CASE stage = "json"   -> parseJSONMaybe(t)
    [] stage = "ttp"    -> parseTTPMaybe(t)
    [] stage = "pasted" -> parsePastedCoordinatesMaybe(t)

\* the catch block that handles an exception of each extractor
OnCatchMaybe(stage) ==
  CASE stage = "json"   -> "ttp"
    [] stage = "ttp"    -> "pasted"
    [] stage = "pasted" -> "fail"

\* the Maybe-based extractRoutes is called on the text
CallMaybe ==
  /\ mpc = "idle"
  /\ pc # "idle"
  /\ tried' = <<>>
  /\ IF Len(text) = 0
     THEN /\ outcome' = failure([message |-> "Empty file"])
          /\ mpc' = "done"
     ELSE /\ outcome' = outcome
          /\ mpc' = "json"
  /\ UNCHANGED <<dispatcherVars, ttpVars, projectorVars, timeVars,
                 distanceVars, maybeVars, appVars>>

\* one try block of the Maybe-based cascade
TryMaybe(stage) ==
  /\ mpc = stage
  /\ LET r == ExtractorMaybe(stage, text)
         handler == OnCatchMaybe(stage)
     IN /\ tried' = Append(tried, stage)
        /\ IF ~r.threw
           THEN outcome' = r.value /\ mpc' = "done"
           ELSE IF handler = "fail"
           THEN /\ outcome' = failure([message |-> "Error parsing text"])
                /\ mpc' = "done"
           ELSE outcome' = outcome /\ mpc' = handler
  /\ UNCHANGED <<dispatcherVars, ttpVars, projectorVars, timeVars,
                 distanceVars, maybeVars, appVars>>

TryJSONMaybe == TryMaybe("json")
TryTTPMaybe == TryMaybe("ttp")
TryPastedMaybe == TryMaybe("pasted")

-----------------------------------------------------------------------------
(* Specification of the two dispatchers on one text *)

\* body lines of a positioning log whose timestamps are numbers
TimedBodyLines ==
  {Record(ts, type, "52") : ts \in {"1", "2"}, type \in Types}
  \cup {Record("2", TYPE_INCOMING_LOCATION, ""), PlainComment, GeoComment}

TimedTtpTexts ==
  {<<h>> \o b : h \in HeaderLines, b \in SeqsOf(TimedBodyLines, 0, MaxBody)}

\* lines of comma-separated numbers
PairLines ==
  {[kind |-> "cells", cells |-> c] :
     c \in {<<"52", "4">>, <<"53", "5">>, <<"x", "52", "5">>, <<"0", "4">>}}

PairTexts == SeqsOf(PairLines, 1, MaxRows)

DispatcherTexts ==
  {<<>>} \cup JsonTexts \cup TimedTtpTexts \cup FreeTexts \cup PairTexts

NextDispatchers ==
  \/ \E t \in DispatcherTexts : Call(t)
  \/ TryJSON
  \/ TryTTP
  \/ TryPasted
  \/ TryCSV
  \/ CallMaybe
  \/ TryJSONMaybe
  \/ TryTTPMaybe
  \/ TryPastedMaybe

SpecDispatchers == Init /\ [][NextDispatchers]_vars

-----------------------------------------------------------------------------
(* C16 *)

\* the text is a JSON document whose formatVersion is not the supported one
WrongVersion(t) ==
  /\ IsJSON(t)
  /\ ~t[1].value.isNull
  /\ t[1].value.formatVersion # "0.0.12"

\* C16 as stated: on valid JSON whose formatVersion differs from "0.0.12"
\* the dispatcher goes on to try the positioning-log extractor and the later
\* extractors on the same text instead of returning a failure at once.
C16_VersionMismatchFallsThrough ==
  WrongVersion(text) =>
    /\ pc = "done" => attempted = <<"json", "ttp", "pasted", "csv">>
    /\ mpc = "done" => tried = <<"json", "ttp", "pasted">>

\* C16 as amended: the callback-based dispatcher goes on to try the
\* positioning-log extractor and the later extractors; the Maybe-based
\* dispatcher returns the failure of the version at once and tries no other
\* extractor.
C16_FallsThroughOrFailsAtOnce ==
  WrongVersion(text) =>
    /\ pc = "done" => attempted = <<"json", "ttp", "pasted", "csv">>
    /\ mpc = "done" =>
         /\ tried = <<"json">>
         /\ isFailure(outcome) /\ ~isSuccess(outcome)
         /\ outcome.error = [message |-> "Unsupported version"]

\* both dispatchers have finished on a document of version 0.0.11 that
\* holds a route
C16_Witness ==
  /\ pc = "done"
  /\ mpc = "done"
  /\ WrongVersion(text)
  /\ text[1].value.formatVersion = "0.0.11"
  /\ text[1].value.routes.array
  /\ text[1].value.routes.items # <<>>
  /\ Len(attempted) = 4
  /\ Len(tried) = 1

-----------------------------------------------------------------------------
(* C21 *)

\* the points that the k-th pattern alone yields, in text order
Yield(t, k) == PointsOfMatches(MatchesOfRegex(t, regexes[k]))

\* the patterns that match somewhere in the text, and those that yield a point
Matching(t) == {k \in 1..Len(regexes) : MatchesOfRegex(t, regexes[k]) # <<>>}
Yielding(t) == {k \in 1..Len(regexes) : Yield(t, k) # <<>>}

Lowest(S) == CHOOSE k \in S : \A j \in S : k <= j

\* the free-text extractor of the callback-based dispatcher has run, and the
\* one of the Maybe-based dispatcher has run
PastedRan == pc = "done" /\ Len(attempted) >= 3
PastedMaybeRan == mpc = "done" /\ Len(tried) = 3

\* the points that each free-text extractor returned (none when it failed)
PastedPoints ==
  IF Returning = "pasted" THEN returned[1].legs[1].points ELSE <<>>
PastedMaybePoints ==
  IF isSuccess(outcome) THEN outcome.result.routes[1].legs[1].points ELSE <<>>

-----------------------------------------------------------------------------
(* C22, C23 *)

\* record i of the log is a record of the channel with a non-zero reception
\* timestamp that lacks longitude, latitude or speed
Incomplete(ls, i, type) ==
  /\ IsRecordOf(ls, i, type)
  /\ parseFloat(ls[i].cells[1]) # 0
  /\ ~(HasCell(ls, i, 3) /\ HasCell(ls, i, 5) /\ HasCell(ls, i, 11))

\* record i is a complete record of the channel with a non-zero timestamp
Complete(ls, i, type) ==
  /\ IsRecordOf(ls, i, type)
  /\ parseFloat(ls[i].cells[1]) # 0
  /\ HasCell(ls, i, 3) /\ HasCell(ls, i, 5) /\ HasCell(ls, i, 11)

\* record i is the first record of the channel with its reception timestamp
FirstWithTimestamp(ls, i, type) ==
  ~\E j \in 1..(i - 1) : IsRecordOf(ls, j, type) /\ ls[j].cells[1] = ls[i].cells[1]

\* the points of a list that carry the reception timestamp ts
WithTimestamp(ps, ts) == SelectSeq(ps, LAMBDA p : p.timestamp = ts)

\* the channel whose points the extractor used, told by its message
ChannelUsed ==
  IF NamesOutgoing(ttp.msgs[1]) THEN TYPE_OUTGOING_LOCATION
  ELSE TYPE_INCOMING_LOCATION

\* C22: a record of the scanned channel that lacks longitude, latitude or
\* speed is not added to the point list but its reception timestamp is marked
\* seen: when it is the first record of the channel with that timestamp, the
\* channel's point list has no point with that timestamp, whatever complete
\* records of the channel with the same timestamp follow it; this holds of
\* the points of the route returned for the channel used.
C22_IncompleteRecordMarksSeen ==
  ttp # None =>
    \A type \in Types : \A i \in 1..Len(lines) :
      (Incomplete(lines, i, type) /\ FirstWithTimestamp(lines, i, type)) =>
        /\ WithTimestamp(parseTTPPoints(lines, type), lines[i].cells[1]) = <<>>
        /\ (~ttp.threw /\ ChannelUsed = type) =>
             WithTimestamp(ttp.routes[1].legs[1].points, lines[i].cells[1]) = <<>>

\* an incomplete record of the outgoing channel is followed by a complete
\* record of that channel with the same reception timestamp, and the route
\* returned for the outgoing channel holds one point, of another timestamp
C22_Witness ==
  /\ ttp # None
  /\ ~ttp.threw
  /\ ChannelUsed = TYPE_OUTGOING_LOCATION
  /\ Len(ttp.routes[1].legs[1].points) = 1
  /\ \E i, j \in 2..Len(lines) :
       /\ i < j
       /\ Incomplete(lines, i, TYPE_OUTGOING_LOCATION)
       /\ FirstWithTimestamp(lines, i, TYPE_OUTGOING_LOCATION)
       /\ Complete(lines, j, TYPE_OUTGOING_LOCATION)
       /\ lines[j].cells[1] = lines[i].cells[1]
       /\ ttp.routes[1].legs[1].points[1].timestamp # lines[i].cells[1]

\* C23: a reception timestamp that an incomplete record has put into the
\* seen-set prevents the other channel from processing it: a record of the
\* other channel with that same timestamp is not added to that channel's
\* point list.
C23_SeenAcrossChannels ==
  ttp # None =>
    \A type, other \in Types : \A i \in 1..Len(lines) :
      (/\ other # type
       /\ Incomplete(lines, i, type)
       /\ FirstWithTimestamp(lines, i, type)) =>
        WithTimestamp(parseTTPPoints(lines, other), lines[i].cells[1]) = <<>>

-----------------------------------------------------------------------------
(* C24 *)

\* the points of a list that carry a parseable timestamp
Timestamped(ps) == SelectSeq(ps, Parseable)

\* C24: calculateTravelTimeInSeconds yields 0 whenever fewer than 2 of the
\* given points carry a parseable timestamp, in particular for every list of
\* points whose timestamps are all null.
C24_ZeroWithoutTwoTimestamps ==
  (elapsed # None /\ Len(Timestamped(points)) < 2) => elapsed = Returns(0)

-----------------------------------------------------------------------------
(* C25 *)

\* both captured numbers of a match parse to non-zero values
BothNonZero(m) ==
  /\ parseFloat(m.lat) \notin {0, NaN}
  /\ parseFloat(m.lon) \notin {0, NaN}

\* the matches of the k-th pattern whose numbers both parse to non-zero values
NonZeroMatches(t, k) == SelectSeq(MatchesOfRegex(t, regexes[k]), BothNonZero)

\* the patterns with such a match
WithNonZeroMatch(t) == {k \in 1..Len(regexes) : NonZeroMatches(t, k) # <<>>}

\* the latitude and longitude of each point of a list
Coordinates(ps) == [i \in 1..Len(ps) |-> <<ps[i].latitude, ps[i].longitude>>]

\* C25: in the free-text extractor a match contributes a point exactly when
\* both captured numbers parse to non-zero values: the points returned are
\* those of the non-zero matches of the pattern used, one each, in text
\* order; and the extractor fails exactly when no pattern has such a match.
C25_PointPerNonZeroMatch ==
  PastedMaybeRan =>
    /\ isFailure(outcome) <=> WithNonZeroMatch(text) = {}
    /\ isSuccess(outcome) <=> WithNonZeroMatch(text) # {}
    /\ isSuccess(outcome) =>
         LET ms == NonZeroMatches(text, Lowest(WithNonZeroMatch(text)))
         IN Coordinates(PastedMaybePoints) =
              [i \in 1..Len(ms) |-> <<parseFloat(ms[i].lat), parseFloat(ms[i].lon)>>]

\* the pattern used has two matches, one of them with a zero latitude or an
\* unparseable longitude, and one point is returned
C25_Witness ==
  /\ PastedMaybeRan
  /\ isSuccess(outcome)
  /\ Len(PastedMaybePoints) = 1
  /\ Len(MatchesOfRegex(text, regexes[Lowest(WithNonZeroMatch(text))])) = 2

-----------------------------------------------------------------------------
(* C26 *)

\* the latitude or the longitude of the point is zero or missing
Unlocated(p) ==
  \/ p.latitude \in {0, NaN, Null}
  \/ p.longitude \in {0, NaN, Null}

\* the segments of a list that touch no such point
LocatedSegments(ps) ==
  {i \in 2..Len(ps) : ~Unlocated(ps[i - 1]) /\ ~Unlocated(ps[i])}

RECURSIVE SumOver(_, _)
\* the sum of the great-circle lengths of the segments S of a list
SumOver(ps, S) ==
  IF S = {} THEN 0
  ELSE LET i == CHOOSE j \in S : TRUE
       IN Haversine(ps[i - 1].latitude, ps[i - 1].longitude,
                    ps[i].latitude, ps[i].longitude)
          + SumOver(ps, S \ {i})

\* C26: calculateDistanceBetweenPointsInMeters returns 0 whenever the latitude
\* or the longitude of either point is zero or missing, so every segment that
\* touches such a point adds nothing to the total distance: the total is that
\* of the remaining segments, in either direction of the list.
C26_UnlocatedSegmentsAddNothing ==
  distance # None =>
    /\ \A i \in 2..Len(points) :
         (Unlocated(points[i - 1]) \/ Unlocated(points[i])) =>
           /\ calculateDistanceBetweenPointsInMeters(points[i - 1], points[i]) = 0
           /\ calculateDistanceBetweenPointsInMeters(points[i], points[i - 1]) = 0
    /\ distance.forward = toFixed2(SumOver(points, LocatedSegments(points)))
    /\ distance.backward # None =>
         distance.backward = Returns(toFixed2(SumOver(points, LocatedSegments(points))))

\* a list of four points with a point whose longitude is zero and a point
\* without a latitude, and one segment between located points that makes up
\* the total
C26_Witness ==
  /\ distance # None
  /\ distance.backward # None
  /\ Len(points) = 4
  /\ \E i, j \in 1..4 : points[i].longitude = 0 /\ points[j].latitude = Null
  /\ Cardinality(LocatedSegments(points)) = 1
  /\ distance.forward > 0

-----------------------------------------------------------------------------
(* C27 *)

\* the cell of row i of a delimited text under the column of that name, or
\* Undef when the row has none
Cell(t, i, name) == Field(Split(t[1]), Split(t[i + 1]), name)

\* the rows of a delimited text that have latitude, longitude and source
\* timestamp, in row order
RequiredRows(t) ==
  SelectSeq([i \in 1..(Len(t) - 1) |-> i],
            LAMBDA i : /\ Cell(t, i, "lat") # Undef
                       /\ Cell(t, i, "lon") # Undef
                       /\ Cell(t, i, "source_timestamp") # Undef)

\* the points of the route the dispatcher returned, none when it returned
\* no route
ReturnedPoints == IF returned = <<>> THEN <<>> ELSE returned[1].legs[1].points

\* C27: the delimited-telemetry extractor drops exactly the rows that lack
\* latitude, longitude or the source timestamp and maps every remaining row,
\* in row order, to one point carrying that row's timestamp, latitude,
\* longitude and speed: the number of points equals the number of rows that
\* have all three required fields.
C27_PointPerRequiredRow ==
  (pc = "done" /\ Returning = "csv") =>
    LET rows == RequiredRows(text)
    IN /\ Len(ReturnedPoints) = Len(rows)
       /\ \A k \in 1..Len(rows) :
            /\ ReturnedPoints[k].timestamp = Cell(text, rows[k], "source_timestamp")
            /\ ReturnedPoints[k].latitude = parseFloat(Cell(text, rows[k], "lat"))
            /\ ReturnedPoints[k].longitude = parseFloat(Cell(text, rows[k], "lon"))

-----------------------------------------------------------------------------
(* C30 *)

\* the points of the legs of a route
LegPoints(r) ==
  UNION {{r.legs[i].points[k] : k \in 1..Len(r.legs[i].points)} :
           i \in {j \in 1..Len(r.legs) : HasPointList(r.legs[j])}}

\* C30: every element returned by extractWaypoints and by extractPoints is a
\* point of some leg of the route, never an undefined or fabricated value,
\* also for a route with a leg whose point list is empty.
C30_OnlyLegPoints ==
  /\ flat # None =>
       \A k \in 1..Len(flat.value) : flat.value[k] \in LegPoints(route)
  /\ waypoints # None =>
       \A k \in 1..Len(waypoints.value) : waypoints.value[k] \in LegPoints(route)

-----------------------------------------------------------------------------
(* The application of the Maybe-based utilities (src/unnamed/part_001) *)

RECURSIVE CascadeMaybe(_, _)
\* the nested try blocks of the Maybe-based extractRoutes from one on
CascadeMaybe(stage, t) ==
  LET r == ExtractorMaybe(stage, t)
  IN IF ~r.threw THEN r.value
     ELSE IF OnCatchMaybe(stage) = "fail"
     THEN failure([message |-> "Error parsing text"])
     ELSE CascadeMaybe(OnCatchMaybe(stage), t)

\* the Maybe that extractRoutes returns for a text
extractRoutesMaybe(t) ==
  IF Len(t) = 0 THEN failure([message |-> "Empty file"])
  ELSE CascadeMaybe("json", t)

\* extractPoints of the Maybe-based utilities
extractPointsMaybe(r) ==
  success([points |-> extractPoints(r),
           message |-> [value |-> "Extracted points"]])

\* route.guidance?.instructions || []
extractGuidanceInstructions(r) ==
  IF "guidance" \in DOMAIN r THEN r.guidance.instructions ELSE <<>>

extractRouteSummary(r) == r.summary

\* the state of the component after its first rendering
AppState ==
  [fileContent |-> <<>>,
   routePoints |-> <<>>,
   guidanceInstructions |-> <<>>,
   waypoints |-> <<>>,
   routeSummary |-> NullObject,
   failMessage |-> NullObject,
   successMessage |-> NullObject,
   isLoading |-> FALSE,
   ifPasted |-> FALSE,
   dataSource |-> NullObject]

\* handleExtractedRoutes on the component state a: the state it leaves and
\* the Maybe it returns
handleExtractedRoutes(a, routes) ==
  IF Len(routes) = 0
  THEN [app |-> a, value |-> failure([message |-> "No valid routes found."])]
  ELSE
    LET extractPointsResult == extractPointsMaybe(routes[1])
    IN IF isFailure(extractPointsResult)
       THEN [app |-> a, value |-> failure(extractPointsResult.error)]
       ELSE IF Len(extractPointsResult.result.points) = 0
       THEN [app |-> a, value |-> failure([message |-> "No valid points found."])]
       ELSE [app |-> [a EXCEPT
                        !.routePoints = extractPointsResult.result.points,
                        !.guidanceInstructions = extractGuidanceInstructions(routes[1]),
                        !.waypoints = extractWaypoints(routes[1]),
                        !.routeSummary = extractRouteSummary(routes[1])],
             value |-> success(extractPointsResult.result.message)]

\* the texts pasted into or loaded by the application: the empty text, JSON
\* responses with one route, with two routes and with none, one coordinate
\* mention, and a text that no extractor accepts
AppContents ==
  {<<>>,
   <<[kind |-> "json",
      value |-> [isNull |-> FALSE, formatVersion |-> supportedVersion,
                 routes |-> JsonArray(<<RouteA>>)]]>>,
   <<[kind |-> "json",
      value |-> [isNull |-> FALSE, formatVersion |-> supportedVersion,
                 routes |-> JsonArray(<<RouteB, RouteA>>)]]>>,
   <<[kind |-> "json",
      value |-> [isNull |-> FALSE, formatVersion |-> supportedVersion,
                 routes |-> JsonArray(<<>>)]]>>,
   <<[kind |-> "text",
      mentions |-> <<[form |-> "GeoArgs", lat |-> "53", lon |-> "5"]>>]>>,
   <<[kind |-> "text",
      mentions |-> <<[form |-> "Bare", lat |-> "0", lon |-> "4"]>>]>>}

DataSources == {"file", "clipboard"}

\* handlePaste, the onload of handleDrop and onFileLoaded: resetContent, and
\* the effect on fileContent, which runs when the content has changed
ResetContent(content, source) ==
  /\ app # None
  /\ Len(timers) < MaxTimers
  /\ LET changed == content # app.fileContent /\ content # <<>>
     IN /\ app' = [app EXCEPT !.dataSource = source,
                              !.fileContent = content,
                              !.ifPasted = FALSE,
                              !.isLoading = IF changed THEN TRUE ELSE @]
        /\ timers' = IF changed
                     THEN Append(timers, [step |-> "extractRoutes",
                                          fileContent |-> content])
                     ELSE timers
  /\ UNCHANGED <<dispatcherVars, ttpVars, projectorVars, timeVars,
                 distanceVars, outcomeVars, maybeVars>>

\* the callback of the first setTimeout of the effect
RunExtractRoutes ==
  /\ timers # <<>>
  /\ Head(timers).step = "extractRoutes"
  /\ LET m == extractRoutesMaybe(Head(timers).fileContent)
     IN /\ app' = [app EXCEPT
                     !.successMessage = IF isSuccess(m) THEN m.result.message ELSE @,
                     !.failMessage = IF isFailure(m)
                                     THEN [value |-> m.error.message] ELSE @,
                     !.isLoading = FALSE]
        /\ timers' = IF isSuccess(m)
                     THEN Append(Tail(timers), [step |-> "handleExtractedRoutes",
                                                routes |-> m.result.routes])
                     ELSE Tail(timers)
  /\ UNCHANGED <<dispatcherVars, ttpVars, projectorVars, timeVars,
                 distanceVars, outcomeVars, maybeVars>>

\* the callback of the second setTimeout of the effect
RunHandleExtractedRoutes ==
  /\ timers # <<>>
  /\ Head(timers).step = "handleExtractedRoutes"
  /\ LET h == handleExtractedRoutes(app, Head(timers).routes)
     IN app' = [h.app EXCEPT
                  !.successMessage = IF isSuccess(h.value) THEN h.value.result ELSE @,
                  !.ifPasted = IF isSuccess(h.value) /\ app.dataSource = "clipboard"
                               THEN TRUE ELSE @,
                  !.failMessage = IF isFailure(h.value)
                                  THEN [value |-> h.value.error.message] ELSE @]
  /\ timers' = Tail(timers)
  /\ UNCHANGED <<dispatcherVars, ttpVars, projectorVars, timeVars,
                 distanceVars, outcomeVars, maybeVars>>

InitApp ==
  /\ app = AppState
  /\ timers = <<>>
  /\ IdleDispatcher /\ IdleTTP /\ IdleProjectors /\ IdleTime
  /\ IdleDistance /\ IdleOutcome /\ IdleMaybe

NextApp ==
  \/ \E content \in AppContents, source \in DataSources : ResetContent(content, source)
  \/ RunExtractRoutes
  \/ RunHandleExtractedRoutes

SpecApp == InitApp /\ [][NextApp]_vars

-----------------------------------------------------------------------------
(* C29 *)

\* the route the component holds for display
HeldRoute ==
  [points |-> app.routePoints,
   waypoints |-> app.waypoints,
   instructions |-> app.guidanceInstructions,
   summary |-> app.routeSummary]

NoRoute ==
  [points |-> <<>>, waypoints |-> <<>>, instructions |-> <<>>,
   summary |-> NullObject]

\* the first route of the routes extracted from a text, as the component
\* holds it, or no route
RouteFrom(content) ==
  LET m == extractRoutesMaybe(content)
  IN IF isSuccess(m) /\ m.result.routes # <<>>
     THEN [points |-> extractPoints(m.result.routes[1]),
           waypoints |-> extractWaypoints(m.result.routes[1]),
           instructions |-> extractGuidanceInstructions(m.result.routes[1]),
           summary |-> extractRouteSummary(m.result.routes[1])]
     ELSE NoRoute

\* C29: a route is discarded when a new input replaces the one it was parsed
\* from: once a new non-empty input has been submitted and processed, the
\* points, waypoints, instructions and summary held for display are those
\* parsed from that input, and none at all when it failed to parse.
C29_RouteOfCurrentInput ==
  (app # None /\ timers = <<>> /\ app.fileContent # <<>>) =>
    HeldRoute = RouteFrom(app.fileContent)

-----------------------------------------------------------------------------
(* The application with chained parse steps (src/unnamed/part_002) *)

\* parseRoutes is not among the sources: it is taken to be the format
\* dispatcher that the specification describes, wrapped as the callers of
\* part_002 read it (result: the routes, message)
parseRoutes(t) ==
  LET extracted == extractRoutesMaybe(t)
  IN IF isSuccess(extracted)
     THEN success([result |-> extracted.result.routes,
                   message |-> [value |-> extracted.result.message]])
     ELSE failure([value |-> extracted.error.message])

RECURSIVE MatcherFindFrom(_, _, _)
\* Matcher.findMatches from the k-th regular expression of the matcher on
MatcherFindFrom(t, rx, k) ==
  IF k > Len(rx) THEN <<>>
  ELSE LET result == PointsOfMatches(MatchesOfRegex(t, rx[k]))
       IN IF result # <<>> THEN result ELSE MatcherFindFrom(t, rx, k + 1)

\* the regular expressions of the two matchers
JsonMatcher == <<"regex_json_coordinates", "regex_raw_coordinates">>
RawPointMatcher == <<"regex_with_named_args", "regex_with_args">>

\* findMatches of the raw-data utilities
findMatchesRaw(t) ==
  LET jsonPoints == MatcherFindFrom(t, JsonMatcher, 1)
      rawPoints == MatcherFindFrom(t, RawPointMatcher, 1)
  IN IF Len(jsonPoints) > 0
     THEN [points |-> jsonPoints, message |-> [value |-> "JSON points extracted:"]]
     ELSE IF Len(rawPoints) > 0
     THEN [points |-> rawPoints, message |-> [value |-> "Raw points extracted:"]]
     ELSE [points |-> <<>>, message |-> [value |-> "No valid raw points found."]]

parseRawPoints(t) ==
  LET result == findMatchesRaw(t)
  IN IF Len(result.points) > 0
     THEN success([result |-> result,
                   message |-> [value |-> "Points extracted successfully."]])
     ELSE failure(result.message)

\* toDate on the timestamp that logcatEntryPattern captures: the date part
\* "MM-DD" has no third component, so the day is parseInt(undefined)
toDate(timestamp) == "Invalid Date"

\* the entries of the lines that match logcatEntryPattern
LogcatEntries(t) ==
  LET matching == SelectSeq(t, LAMBDA line : line.kind = "logcat")
  IN [i \in 1..Len(matching) |->
        [timestamp |-> toDate(<<matching[i].date, matching[i].hour,
                                matching[i].minute, matching[i].second>>),
         pid |-> matching[i].pid,
         tid |-> matching[i].tid,
         level |-> matching[i].level,
         tag |-> matching[i].tag,
         message |-> matching[i].message]]

parseLogfile(t) ==
  LET log == LogcatEntries(t)
  IN IF Len(log) = 0
     THEN failure([value |-> "No valid log entries found."])
     ELSE success([result |-> [log |-> log,
                               message |-> [value |-> "Parsed logcat"]],
                   message |-> [value |-> "Log extracted successfully."]])

\* the state of the component after its first rendering
PlotterState ==
  [inputData |-> <<>>,
   routes |-> <<>>,
   rawPoints |-> NullObject,
   logFile |-> NullObject,
   failureMessage |-> NullObject,
   successMessage |-> NullObject,
   isLoading |-> FALSE]

\* what the route-plotter tab shows
Displayed(a) ==
  IF Len(a.routes) > 0 THEN "RouteMap"
  ELSE IF a.rawPoints # NullObject /\ Len(a.rawPoints.points) > 0 THEN "RawPointMap"
  ELSE IF a.logFile # NullObject /\ Len(a.logFile.log) > 0 THEN "LogMap"
  ELSE "BrowseMap"

\* a line of a logcat file at midnight sharp: MM-DD 00:04:00.000 pid tid I tag: m
LogcatLine ==
  [kind |-> "logcat", date |-> "01-02", hour |-> "00", minute |-> "04",
   second |-> "00.000", pid |-> "123", tid |-> "456", level |-> "I",
   tag |-> "tag", message |-> "m"]

\* the inputs pasted into or loaded by the application: the empty text, JSON
\* responses with one route and with none, JSON-like coordinates, a logcat
\* file, and a text that no parser accepts
PlotterInputs ==
  {<<>>,
   <<[kind |-> "json",
      value |-> [isNull |-> FALSE, formatVersion |-> supportedVersion,
                 routes |-> JsonArray(<<RouteA>>)]]>>,
   <<[kind |-> "json",
      value |-> [isNull |-> FALSE, formatVersion |-> supportedVersion,
                 routes |-> JsonArray(<<>>)]]>>,
   <<[kind |-> "text",
      mentions |-> <<[form |-> "Colon", lat |-> "52", lon |-> "4"]>>]>>,
   <<[kind |-> "text",
      mentions |-> <<[form |-> "Colon", lat |-> "53", lon |-> "5"]>>]>>,
   <<LogcatLine>>,
   <<[kind |-> "text",
      mentions |-> <<[form |-> "Bare", lat |-> "0", lon |-> "4"]>>]>>}

\* handlePaste, the onload of handleDrop and onFileLoaded: resetInput, and
\* the effect on inputData, which runs when the input has changed
ResetInput(content) ==
  /\ app # None
  /\ Len(timers) < MaxTimers
  /\ LET changed == content # app.inputData /\ content # <<>>
     IN /\ app' = [app EXCEPT !.routes = <<>>,
                              !.rawPoints = NullObject,
                              !.logFile = NullObject,
                              !.inputData = content,
                              !.isLoading = IF changed THEN TRUE ELSE @]
        /\ timers' = IF changed
                     THEN Append(timers, [step |-> "parseRoutes",
                                          inputData |-> content])
                     ELSE timers
  /\ UNCHANGED <<dispatcherVars, ttpVars, projectorVars, timeVars,
                 distanceVars, outcomeVars, maybeVars>>

\* the ifSuccess callback of parseRoutes on the component state a
OnRoutes(a, maybeRoutes) ==
  IF ~isSuccess(maybeRoutes) THEN a
  ELSE IF Len(maybeRoutes.result.result) = 0
  THEN [a EXCEPT !.failureMessage = maybeRoutes.result.message]
  ELSE [a EXCEPT !.successMessage = maybeRoutes.result.message,
                 !.routes = maybeRoutes.result.result]

\* the ifSuccess callback of parseRawPoints
OnRawPoints(a, maybePoints) ==
  IF ~isSuccess(maybePoints) THEN a
  ELSE IF Len(maybePoints.result.result.points) = 0
  THEN [a EXCEPT !.failureMessage = maybePoints.result.message]
  ELSE [a EXCEPT !.successMessage = maybePoints.result.message,
                 !.rawPoints = maybePoints.result.result]

\* the ifSuccess and ifFailure callbacks of parseLogfile
OnLogfile(a, maybeLogfile) ==
  IF ~isSuccess(maybeLogfile)
  THEN IF isFailure(maybeLogfile)
       THEN [a EXCEPT !.failureMessage = [value |-> "Invalid input data."]]
       ELSE a
  ELSE IF Len(maybeLogfile.result.result.log) = 0
  THEN [a EXCEPT !.failureMessage = maybeLogfile.result.message]
  ELSE [a EXCEPT !.successMessage = maybeLogfile.result.message,
                 !.logFile = maybeLogfile.result.result]

\* the callback of the first setTimeout: parseRoutes, and finally
RunParseRoutes ==
  /\ timers # <<>>
  /\ Head(timers).step = "parseRoutes"
  /\ app' = [OnRoutes(app, parseRoutes(Head(timers).inputData))
               EXCEPT !.isLoading = FALSE]
  /\ timers' = IF isFailure(parseRoutes(Head(timers).inputData))
               THEN Append(Tail(timers), [step |-> "parseRawPoints",
                                          inputData |-> Head(timers).inputData])
               ELSE Tail(timers)
  /\ UNCHANGED <<dispatcherVars, ttpVars, projectorVars, timeVars,
                 distanceVars, outcomeVars, maybeVars>>

\* the callback of the second setTimeout: parseRawPoints
RunParseRawPoints ==
  /\ timers # <<>>
  /\ Head(timers).step = "parseRawPoints"
  /\ app' = OnRawPoints(app, parseRawPoints(Head(timers).inputData))
  /\ timers' = IF isFailure(parseRawPoints(Head(timers).inputData))
               THEN Append(Tail(timers), [step |-> "parseLogfile",
                                          inputData |-> Head(timers).inputData])
               ELSE Tail(timers)
  /\ UNCHANGED <<dispatcherVars, ttpVars, projectorVars, timeVars,
                 distanceVars, outcomeVars, maybeVars>>

\* the callback of the third setTimeout: parseLogfile
RunParseLogfile ==
  /\ timers # <<>>
  /\ Head(timers).step = "parseLogfile"
  /\ app' = OnLogfile(app, parseLogfile(Head(timers).inputData))
  /\ timers' = Tail(timers)
  /\ UNCHANGED <<dispatcherVars, ttpVars, projectorVars, timeVars,
                 distanceVars, outcomeVars, maybeVars>>

InitPlotter ==
  /\ app = PlotterState
  /\ timers = <<>>
  /\ IdleDispatcher /\ IdleTTP /\ IdleProjectors /\ IdleTime
  /\ IdleDistance /\ IdleOutcome /\ IdleMaybe

NextPlotter ==
  \/ \E content \in PlotterInputs : ResetInput(content)
  \/ RunParseRoutes
  \/ RunParseRawPoints
  \/ RunParseLogfile

SpecPlotter == InitPlotter /\ [][NextPlotter]_vars

-----------------------------------------------------------------------------
(* C28 *)

\* what each parse step yields for an input, when it yields something
RoutesOf(content) ==
  IF content # <<>> /\ isSuccess(parseRoutes(content))
  THEN parseRoutes(content).result.result ELSE <<>>
RawPointsOf(content) ==
  IF content # <<>> /\ isSuccess(parseRawPoints(content))
  THEN parseRawPoints(content).result.result ELSE NullObject
LogfileOf(content) ==
  IF content # <<>> /\ isSuccess(parseLogfile(content))
  THEN parseLogfile(content).result.result ELSE NullObject

\* C28: when a new input arrives while parse steps of an earlier input are
\* pending, then once all pending parse steps have run the data held for
\* display (routes, raw points, log file) derive only from the most recent
\* input: each is empty or is what its parse step yields for that input.
C28_OnlyMostRecentInput ==
  (app # None /\ timers = <<>>) =>
    /\ app.routes \in {<<>>, RoutesOf(app.inputData)}
    /\ app.rawPoints \in {NullObject, RawPointsOf(app.inputData)}
    /\ app.logFile \in {NullObject, LogfileOf(app.inputData)}

====
